---- MODULE Spec2Model ----
(***************************************************************************)
(* Verification model of grpc-helper: the events manager (per-subscriber   *)
(* queues, interrupt/resume, retention, keep-alive, shutdown hook) and     *)
(* the configuration manager (get/set/reset under the manager lock).       *)
(***************************************************************************)
EXTENDS Integers, Sequences, FiniteSets, TLC

\* ------------------------------------------------------------------ bounds
\* client calls (listen, send, interrupt) issued in one run of the free environment
MaxCalls == 3
\* last value of the clock
MaxTime == 2

\* ------------------------------------------------- configuration read by events
\* RpcStaticConfig.EVENT_RETAIN_TIMEOUT.int_val (seconds)
EVENT_RETAIN_TIMEOUT == 2
\* RpcStaticConfig.EVENT_KEEPALIVE_TIMEOUT.int_val (seconds)
EVENT_KEEPALIVE_TIMEOUT == 2

\* valid event names (non-empty, no space) used by send and by listen filters
EventNames == {"a", "b"}
\* names filters of listen: request.names, empty meaning "everything"
Filters == {{}, {"a"}}

\* the value None of an entry of __interrupt_times; a set time t is <<t>>
None == <<>>

VARIABLES
    queues,           \* EventsManager.__queues: id -> Queue object (index into qobj)
    qobj,             \* the Queue objects ever created: qobj[o] is the content of object o
    interrupt_times,  \* EventsManager.__interrupt_times: id -> None or <<time>>
    queues_json,      \* ids persisted in workspace/queues.json
    lock,             \* RpcManager.lock: "free", or the holder that keeps it across steps
    keep_alive_stop,  \* EventsManager.__keep_alive_stop
    ka_pc,            \* position of the keep-alive thread
    ka_init_time,     \* init_time of the keep-alive thread's sleep loop
    shutdown_pc,      \* position of the _shutdown hook: "idle", "join", "done"
    now,              \* time.time()
    streams,          \* the listen calls: one record per call (generator state and yielded elements)
    interrupts,       \* the interrupt calls: one record per call
    sends,            \* the send calls accepted so far (one record per event)
    step,             \* position in the scripted scenario (0 when the environment is free)
    system_config,    \* content of system/config.json (name -> value)
    user_config,      \* content of user/config.json
    environ,          \* os.environ (variable name -> value)
    cli_config,       \* ConfigManager.cli_config
    default_value,    \* item.default_value of every config item
    value,            \* item.value of every config item
    config_json,      \* content of workspace/config.json
    cfg_lock,         \* ConfigManager.lock: 0, or the call that holds it
    calls,            \* the config calls: one record per get, set or reset
    log,              \* the config calls that returned, in the order they left the lock
    peers,            \* the user items (name -> value) of each proxied config server
    proxy_get,        \* the last get served over the peers: its request, inputs and outcome
    client,           \* the RpcClient and its call: RetryMethod fields and the position in __call__
    client_time,      \* time.time() of the client, in units of 500 ms
    server,           \* the server side of the call: the manager's producer and the stream sent
    descriptors,      \* RpcServer.descriptors: the services in their order of registration
    info,             \* RpcServer.__info: service name -> ServiceInfo
    proxy_json,       \* content of workspace/proxy.json (service name -> host, port, version)
    srv_lock,         \* RpcServer.lock: 0, or the call that holds it
    srv_calls,        \* the calls to the server: proxy_register, proxy_forget, info, dispatched methods
    srv_log,          \* the proxy_register and proxy_forget calls that took the lock, in that order
    srv_time,         \* time.time() of the server, in units of 500 ms
    hooks,            \* the services whose manager got its _shutdown call, in call order
    rpc_server,       \* RpcServer.__server: <<"grpc">>, or None once a shutdown took it
    is_running,       \* RpcServer.__is_running
    transport,        \* the grpc server: calls of stop(), time of the first, aborted calls
    shutdowns,        \* the calls of RpcServer.shutdown and their finalizations
    waits,            \* the calls of wait_shutdown: "wait" or "returned"
    listener          \* the EventsListener of a client: its thread, client_id and ready event

evars == <<queues, qobj, interrupt_times, queues_json, lock, keep_alive_stop, ka_pc,
           ka_init_time, shutdown_pc, now, streams, interrupts, sends>>

cvars == <<system_config, user_config, environ, cli_config, default_value, value,
           config_json, cfg_lock, calls, log>>

vars == <<queues, qobj, interrupt_times, queues_json, lock, keep_alive_stop, ka_pc,
          ka_init_time, shutdown_pc, now, streams, interrupts, sends, step,
          system_config, user_config, environ, cli_config, default_value, value,
          config_json, cfg_lock, calls, log, peers, proxy_get, client, client_time, server,
          descriptors, info, proxy_json, srv_lock, srv_calls, srv_log, srv_time, hooks,
          rpc_server, is_running, transport, shutdowns, waits, listener>>

svars == <<descriptors, info, proxy_json, srv_lock, srv_calls, srv_log, srv_time, hooks>>

pvars == <<peers, proxy_get>>

rvars == <<client, client_time, server>>

lvars == <<rpc_server, is_running, transport, shutdowns, waits>>

xvars == <<peers, proxy_get, client, client_time, server, svars, lvars, listener>>

\* ------------------------------------------------------------ queue items
KeepAliveEvent == [kind |-> "event", name |-> "", seq |-> 0]
NoneItem == [kind |-> "none", name |-> "", seq |-> 0]
ShutdownStatus == [kind |-> "status", name |-> "ERROR_STREAM_SHUTDOWN", seq |-> 0]
IdStatus == [kind |-> "id", name |-> "", seq |-> 0]
NamedEvent(n, k) == [kind |-> "event", name |-> n, seq |-> k]

\* Queue.put / put_nowait on object o
Put(objs, o, item) == [objs EXCEPT ![o] = Append(@, item)]

\* the server accepts new calls until Server.shutdown stops the transport,
\* which it does before it runs the managers' _shutdown hooks
Accepting ==
    /\ shutdown_pc = "idle"
    /\ step = 0 => Len(streams) + Len(sends) + Len(interrupts) < MaxCalls

\* ---------------------------------------------------------------- Init
\* state after __init__ and _load (keep-alive thread started), empty workspace
InitEvents ==
    /\ queues = <<>>
    /\ qobj = <<>>
    /\ interrupt_times = <<>>
    /\ queues_json = {}
    /\ lock = "free"
    /\ keep_alive_stop = FALSE
    /\ ka_pc = "check"
    /\ ka_init_time = 0
    /\ shutdown_pc = "idle"
    /\ now = 0
    /\ streams = <<>>
    /\ interrupts = <<>>
    /\ sends = <<>>

\* ------------------------------------------------------- __internal_send
\* faulty variant of IsExpired: a queue is kept until the retain timeout is exceeded
IsExpiredStrict(index) ==
    /\ index \in DOMAIN interrupt_times
    /\ interrupt_times[index] # None
    /\ now - interrupt_times[index][1] > EVENT_RETAIN_TIMEOUT

\* "Interrupted queue + retain timeout expired?"
IsExpired(index) ==
    /\ index \in DOMAIN interrupt_times
    /\ interrupt_times[index] # None
    /\ now - interrupt_times[index][1] >= EVENT_RETAIN_TIMEOUT

\* faulty variant of InternalSend: an interrupted queue is given no event while it waits
\* for its subscriber to resume
InternalSendSkipsInterrupted(request) ==
    LET to_delete == {index \in DOMAIN queues : IsExpired(index)}
        kept == DOMAIN queues \ to_delete
        listening == {index \in kept : index \notin DOMAIN interrupt_times
                                          \/ interrupt_times[index] = None}
    IN  /\ qobj' = [o \in DOMAIN qobj |->
                      IF \E index \in listening : queues[index] = o
                      THEN Append(qobj[o], request) ELSE qobj[o]]
        /\ queues' = [index \in kept |-> queues[index]]
        /\ interrupt_times' = [index \in DOMAIN interrupt_times \ to_delete |->
                                  interrupt_times[index]]
        /\ queues_json' = IF to_delete # {} THEN kept ELSE queues_json

\* the whole of __internal_send, under the lock: expired queues are forgotten
\* (and queues.json rewritten), every other queue gets the event
InternalSend(request) ==
    LET to_delete == {index \in DOMAIN queues : IsExpired(index)}
        kept == DOMAIN queues \ to_delete
    IN  /\ qobj' = [o \in DOMAIN qobj |->
                      IF \E index \in kept : queues[index] = o
                      THEN Append(qobj[o], request) ELSE qobj[o]]
        /\ queues' = [index \in kept |-> queues[index]]
        /\ interrupt_times' = [index \in DOMAIN interrupt_times \ to_delete |->
                                  interrupt_times[index]]
        /\ queues_json' = IF to_delete # {} THEN kept ELSE queues_json

\* ------------------------------------------------------------------ listen
\* "Prepare a new index (from scratch, to reuse released indexes)"
RECURSIVE NextFree(_, _)
NextFree(index, used) == IF index \in used THEN NextFree(index + 1, used) ELSE index

\* faulty variant of NewIndex: the first candidate, with no look at the ids in use
NewIndexUnchecked(used) == 1

NewIndex(used) == NextFree(1, used)

\* the streams that read their queue and whose queue holds no pending end (None
\* or shutdown status): the listeners a send made now can still reach
HasEnd(o) == \E k \in 1..Len(qobj[o]) : qobj[o][k].kind \in {"none", "status"}

ActiveStreams == {s \in DOMAIN streams : streams[s].pc = "loop" /\ ~HasEnd(streams[s].q)}

\* listen up to its first yield (the EventStatus carrying client_id), after which
\* the generator is in its read loop; an unknown client_id ends the call
Listen(client_id, names) ==
    /\ Accepting
    /\ lock = "free"
    /\ IF client_id > 0
       THEN IF client_id \in DOMAIN queues
            THEN /\ interrupt_times' =
                       [index \in DOMAIN interrupt_times \cup {client_id} |->
                           IF index = client_id THEN None ELSE interrupt_times[index]]
                 /\ streams' = Append(streams,
                       [cid |-> client_id, names |-> names, index |-> client_id,
                        q |-> queues[client_id], pc |-> "loop", last |-> "",
                        rc |-> "OK", out |-> <<IdStatus>>, open |-> FALSE])
                 /\ interrupts' = [j \in DOMAIN interrupts |->
                       IF interrupts[j].q = queues[client_id]
                       THEN [interrupts[j] EXCEPT !.resumed = TRUE] ELSE interrupts[j]]
                 /\ UNCHANGED <<queues, qobj, queues_json>>
            ELSE /\ streams' = Append(streams,
                       [cid |-> client_id, names |-> names, index |-> 0,
                        q |-> 0, pc |-> "done", last |-> "",
                        rc |-> "ERROR_ITEM_UNKNOWN", out |-> <<>>, open |-> FALSE])
                 /\ UNCHANGED <<queues, qobj, interrupt_times, queues_json, interrupts>>
       ELSE LET index == NewIndex(DOMAIN queues)
                o == Len(qobj) + 1
            IN  /\ qobj' = Append(qobj, <<>>)
                /\ queues' = [i \in DOMAIN queues \cup {index} |->
                                 IF i = index THEN o ELSE queues[i]]
                /\ queues_json' = DOMAIN queues'
                /\ streams' = Append(streams,
                       [cid |-> client_id, names |-> names, index |-> index,
                        q |-> o, pc |-> "loop", last |-> "",
                        rc |-> "OK", out |-> <<IdStatus>>, open |-> FALSE])
                /\ UNCHANGED <<interrupt_times, interrupts>>
    /\ UNCHANGED <<lock, keep_alive_stop, ka_pc, ka_init_time, shutdown_pc, now, sends>>

\* faulty variant of Yielded: the names filter applies to the keep-alive event too
YieldedByNameOnly(names, event) == names = {} \/ event.name \in names

\* "Is this a meaningful or a keep alive event?"
Yielded(names, event) == names = {} \/ event.name \in names \/ event.name = ""

\* one turn of the read loop: the blocking q.get(), then break or yield
ListenGet(s) ==
    /\ s \in DOMAIN streams
    /\ streams[s].pc = "loop"
    /\ qobj[streams[s].q] # <<>>
    /\ LET event == Head(qobj[streams[s].q])
       IN  /\ qobj' = [qobj EXCEPT ![streams[s].q] = Tail(@)]
           /\ streams' =
                IF event.kind \in {"none", "status"}
                THEN [streams EXCEPT ![s].pc = "ended", ![s].last = event.kind]
                ELSE IF Yielded(streams[s].names, event)
                     THEN [streams EXCEPT ![s].out = Append(@, event)]
                     ELSE streams
    /\ UNCHANGED <<queues, interrupt_times, queues_json, lock, keep_alive_stop, ka_pc,
                   ka_init_time, shutdown_pc, now, interrupts, sends>>

\* after the loop: "Remember interrupt time" under the lock, then the last
\* yield of the shutdown status, if that is what ended the loop
ListenEnd(s) ==
    /\ s \in DOMAIN streams
    /\ streams[s].pc = "ended"
    /\ lock = "free"
    /\ interrupt_times' =
          [index \in DOMAIN interrupt_times \cup {streams[s].index} |->
              IF index = streams[s].index THEN <<now>> ELSE interrupt_times[index]]
    /\ streams' =
          IF streams[s].last = "status"
          THEN [streams EXCEPT ![s].pc = "done", ![s].rc = "ERROR_STREAM_SHUTDOWN",
                               ![s].out = Append(@, ShutdownStatus)]
          ELSE [streams EXCEPT ![s].pc = "done"]
    /\ UNCHANGED <<queues, qobj, queues_json, lock, keep_alive_stop, ka_pc,
                   ka_init_time, shutdown_pc, now, interrupts, sends>>

\* ---------------------------------------------------------------- interrupt
\* observation: an interrupt of queue object o returned OK and no listen resumed
\* the queue since
IssuedNotResumed(o) ==
    \E j \in DOMAIN interrupts :
        interrupts[j].q = o /\ interrupts[j].rc = "OK" /\ ~interrupts[j].resumed

\* "Known index?": __get_queue under the lock. The fields again and resumed of
\* the call's record are observations, read by no action
InterruptStart(client_id) ==
    /\ Accepting
    /\ lock = "free"
    /\ interrupts' = Append(interrupts,
          IF client_id \in DOMAIN queues
          THEN [cid |-> client_id, q |-> queues[client_id], pc |-> "check", rc |-> "",
                again |-> IssuedNotResumed(queues[client_id]), resumed |-> FALSE]
          ELSE [cid |-> client_id, q |-> 0, pc |-> "done", rc |-> "ERROR_ITEM_UNKNOWN",
                again |-> FALSE, resumed |-> FALSE])
    /\ UNCHANGED <<queues, qobj, interrupt_times, queues_json, lock, keep_alive_stop,
                   ka_pc, ka_init_time, shutdown_pc, now, streams, sends>>

\* "Refuse to interrupt again already interrupted queue"
AlreadyInterrupted(client_id) ==
    client_id \in DOMAIN interrupt_times /\ interrupt_times[client_id] # None

InterruptCheck(i) ==
    /\ i \in DOMAIN interrupts
    /\ interrupts[i].pc = "check"
    /\ lock = "free"
    /\ interrupts' =
          IF AlreadyInterrupted(interrupts[i].cid)
          THEN [interrupts EXCEPT ![i].pc = "done", ![i].rc = "ERROR_STATE_UNEXPECTED"]
          ELSE [interrupts EXCEPT ![i].pc = "put"]
    /\ UNCHANGED <<queues, qobj, interrupt_times, queues_json, lock, keep_alive_stop,
                   ka_pc, ka_init_time, shutdown_pc, now, streams, sends>>

\* q.put(None), outside the lock
InterruptPut(i) ==
    /\ i \in DOMAIN interrupts
    /\ interrupts[i].pc = "put"
    /\ qobj' = Put(qobj, interrupts[i].q, NoneItem)
    /\ interrupts' = [interrupts EXCEPT ![i].pc = "done", ![i].rc = "OK"]
    /\ UNCHANGED <<queues, interrupt_times, queues_json, lock, keep_alive_stop,
                   ka_pc, ka_init_time, shutdown_pc, now, streams, sends>>

\* --------------------------------------------------------------------- send
\* send of a valid name: __internal_send of the event
Send(name) ==
    /\ Accepting
    /\ lock = "free"
    /\ InternalSend(NamedEvent(name, Len(sends) + 1))
    /\ sends' = Append(sends, [name |-> name, active |-> ActiveStreams])
    /\ UNCHANGED <<lock, keep_alive_stop, ka_pc, ka_init_time, shutdown_pc, now,
                   streams, interrupts>>

\* --------------------------------------------------------------- keep-alive
\* "while not self.__keep_alive_stop.is_set()"
KeepAliveCheck ==
    /\ ka_pc = "check"
    /\ ka_pc' = IF keep_alive_stop THEN "exit" ELSE "send"
    /\ UNCHANGED <<queues, qobj, interrupt_times, queues_json, lock, keep_alive_stop,
                   ka_init_time, shutdown_pc, now, streams, interrupts, sends>>

\* "Send keep alive event", then init_time = time.time()
KeepAliveSend ==
    /\ ka_pc = "send"
    /\ lock = "free"
    /\ InternalSend(KeepAliveEvent)
    /\ ka_init_time' = now
    /\ ka_pc' = "sleep"
    /\ UNCHANGED <<lock, keep_alive_stop, shutdown_pc, now, streams, interrupts, sends>>

\* the sleep loop ends when the stop event is set or the timeout has elapsed
KeepAliveWake ==
    /\ ka_pc = "sleep"
    /\ keep_alive_stop \/ now - ka_init_time >= EVENT_KEEPALIVE_TIMEOUT
    /\ ka_pc' = "check"
    /\ UNCHANGED <<queues, qobj, interrupt_times, queues_json, lock, keep_alive_stop,
                   ka_init_time, shutdown_pc, now, streams, interrupts, sends>>

\* the subscriber's transport closes while the generator of listen is suspended
\* in its loop: the server closes the generator, whose code after the loop
\* ("Remember interrupt time") is not run
ListenAbandon(s) ==
    /\ s \in DOMAIN streams
    /\ streams[s].pc = "loop"
    /\ streams' = [streams EXCEPT ![s].pc = "closed"]
    /\ UNCHANGED <<queues, qobj, interrupt_times, queues_json, lock, keep_alive_stop,
                   ka_pc, ka_init_time, shutdown_pc, now, interrupts, sends>>

\* ---------------------------------------------------------------- _shutdown
\* takes the lock, sets the stop event and waits to join the keep-alive thread
ShutdownBegin ==
    /\ shutdown_pc = "idle"
    /\ lock = "free"
    /\ lock' = "shutdown"
    /\ keep_alive_stop' = TRUE
    /\ shutdown_pc' = "join"
    /\ UNCHANGED <<queues, qobj, interrupt_times, queues_json, ka_pc, ka_init_time,
                   now, streams, interrupts, sends>>

\* the join returned: "Push an interrupt status" on every queue, release the lock.
\* The field open of a stream's record is an observation, read by no action: the
\* stream was reading its queue, with no end pending, when the statuses were pushed
ShutdownEnd ==
    /\ shutdown_pc = "join"
    /\ ka_pc = "exit"
    /\ qobj' = [o \in DOMAIN qobj |->
                  IF \E index \in DOMAIN queues : queues[index] = o
                  THEN Append(qobj[o], ShutdownStatus) ELSE qobj[o]]
    /\ streams' = [s \in DOMAIN streams |->
                     [streams[s] EXCEPT !.open = s \in ActiveStreams]]
    /\ lock' = "free"
    /\ shutdown_pc' = "done"
    /\ UNCHANGED <<queues, interrupt_times, queues_json, keep_alive_stop, ka_pc,
                   ka_init_time, now, interrupts, sends>>

\* ------------------------------------------------------------- the restart
\* the Queue objects created in one run, by listen and by the restarts
MaxQueueObjects == 3

\* faulty variant of RestartTimes: the queues re-created are not interrupted
RestartTimesNone(ids, t) == [index \in ids |-> None]

\* "Also assume all queues are interrupted": __interrupt_times after
\* _init_folders_n_logger at time t
RestartTimes(ids, t) == [index \in ids |-> <<t>>]

\* the k-th smallest id of a set of ids
RECURSIVE Rank(_, _)
Rank(index, ids) ==
    IF ids = {} THEN 0
    ELSE LET m == CHOOSE x \in ids : \A y \in ids : x <= y
         IN  (IF m <= index THEN 1 ELSE 0) + Rank(index, ids \ {m})

\* a fresh EventsManager on the same workspace, once the former one is shut
\* down and its calls are over: __init__, _init_folders_n_logger ("Prepare
\* persisted queues": one new Queue per id of queues.json) and _load (keep-alive
\* thread started)
RestartEvents ==
    /\ shutdown_pc = "done"
    /\ Len(qobj) + Cardinality(queues_json) <= MaxQueueObjects
    /\ \A s \in DOMAIN streams : streams[s].pc \in {"done", "closed"}
    /\ \A i \in DOMAIN interrupts : interrupts[i].pc = "done"
    /\ qobj' = qobj \o [k \in 1..Cardinality(queues_json) |-> <<>>]
    /\ queues' = [index \in queues_json |-> Len(qobj) + Rank(index, queues_json)]
    /\ interrupt_times' = RestartTimes(queues_json, now)
    /\ lock' = "free"
    /\ keep_alive_stop' = FALSE
    /\ ka_pc' = "check"
    /\ ka_init_time' = 0
    /\ shutdown_pc' = "idle"
    /\ UNCHANGED <<queues_json, now, streams, interrupts, sends>>

\* ------------------------------------------------------- the EventsListener
\* the client_id field of the EventFilter and EventInterrupt built from the
\* listener's client_id: None leaves the field at its default
FilterId(client_id) == IF client_id = None THEN 0 ELSE client_id[1]

\* faulty variant of Remember: the id of the subscription is never stored
RememberNever(l, index) == l

\* "Remember ID": the client_id of the status is stored, and ready is set, when
\* ready is not set
Remember(l, index) ==
    IF ~l.ready THEN [l EXCEPT !.client_id = <<index>>, !.ready = TRUE] ELSE l

\* EventsListener(client, names, client_id): the listening thread starts
ListenerStart(client_id) ==
    /\ listener.pc = "idle"
    /\ listener' = [listener EXCEPT !.pc = "call", !.client_id = client_id]
    /\ UNCHANGED evars

\* "self.client.events.listen(EventFilter(client_id=self.client_id, ...))": the
\* server runs listen up to its first yield
ListenerListen ==
    /\ listener.pc = "call"
    /\ Listen(FilterId(listener.client_id), {})
    /\ listener' = [listener EXCEPT !.pc = "read", !.stream = Len(streams) + 1, !.seen = 0]

\* the call is made while the server is shut down: the RpcError goes to "Other
\* error handling"
ListenerRefused ==
    /\ listener.pc = "call"
    /\ shutdown_pc # "idle"
    /\ listener' = [listener EXCEPT !.pc = "sleep"]
    /\ UNCHANGED evars

\* one turn of "for s in ...listen(...)": the next status of the stream is
\* received; the shutdown status and the result of an unknown id are raised by
\* the client as RpcException; the end of the stream ends the loop and the thread
ListenerNext ==
    /\ listener.pc = "read"
    /\ LET s == streams[listener.stream]
       IN  IF listener.seen < Len(s.out)
           THEN listener' =
                    IF s.out[listener.seen + 1] = ShutdownStatus
                    THEN [listener EXCEPT !.pc = "sleep"]
                    ELSE [Remember(listener, s.index) EXCEPT !.seen = @ + 1]
           ELSE /\ s.pc = "done"
                /\ listener' =
                       IF s.rc = "ERROR_ITEM_UNKNOWN"
                       THEN IF listener.client_id # None
                            THEN [listener EXCEPT !.pc = "call", !.client_id = None]
                            ELSE [listener EXCEPT !.pc = "sleep"]
                       ELSE [listener EXCEPT !.pc = "ended"]
    /\ UNCHANGED evars

\* the transport fails while the stream is read: the server closes the
\* generator of listen, the RpcError goes to "Other error handling"
ListenerFail ==
    /\ listener.pc = "read"
    /\ ListenAbandon(listener.stream)
    /\ listener' = [listener EXCEPT !.pc = "sleep"]

\* time.sleep(retry_delay) returns and the loop goes on
ListenerWake ==
    /\ listener.pc = "sleep"
    /\ listener' = [listener EXCEPT !.pc = "call"]
    /\ UNCHANGED evars

\* EventsListener.interrupt: events.interrupt(EventInterrupt(client_id=self.client_id))
ListenerInterrupt ==
    /\ listener.pc \notin {"idle", "ended"}
    /\ InterruptStart(FilterId(listener.client_id))
    /\ UNCHANGED listener

\* ---------------------------------------------------------------- the clock
Tick ==
    /\ now < MaxTime
    /\ now' = now + 1
    /\ UNCHANGED <<queues, qobj, interrupt_times, queues_json, lock, keep_alive_stop,
                   ka_pc, ka_init_time, shutdown_pc, streams, interrupts, sends>>

\* ------------------------------------------------------ the config manager
\* a ConfigManager with the user items of the tests and one framework static
\* item, on a server with no proxied config service (__merged_items is then the
\* local user items of __filter_items)
MaxCfgCalls == 3

UserItems == {"my-int-config", "my-str-config"}
StaticItems == {"rpc-max-workers"}
Items == UserItems \cup StaticItems

\* the declarations: Config(name, default_value, validator, can_be_empty)
hard_coded_default_value ==
    ("my-int-config" :> "12") @@ ("my-str-config" :> "") @@ ("rpc-max-workers" :> "30")

validator ==
    ("my-int-config" :> "CONFIG_VALID_INT") @@ ("my-str-config" :> "CONFIG_VALID_STRING")
       @@ ("rpc-max-workers" :> "CONFIG_VALID_POS_INT")

can_be_empty ==
    ("my-int-config" :> FALSE) @@ ("my-str-config" :> TRUE) @@ ("rpc-max-workers" :> FALSE)

\* int(value) on the strings of the model; a string outside the table raises
\* ValueError
IntLiterals ==
    ("12" :> 12) @@ ("30" :> 30) @@ ("-78" :> -78) @@ ("3" :> 3) @@ ("8" :> 8) @@ ("5" :> 5)
       @@ ("0" :> 0) @@ ("777" :> 777) @@ ("999" :> 999)

\* validate_int / validate_pos_int / the string validator: the result code of the
\* exception raised, "OK" when none is
validate_int(v) == IF v \in DOMAIN IntLiterals THEN "OK" ELSE "ERROR_PARAM_INVALID"

validate_pos_int(v) ==
    IF validate_int(v) # "OK" THEN "ERROR_PARAM_INVALID"
    ELSE IF IntLiterals[v] <= 0 THEN "ERROR_PARAM_INVALID" ELSE "OK"

\* Config.validate
Validate(name, v) ==
    IF v = "" THEN (IF can_be_empty[name] THEN "OK" ELSE "ERROR_PARAM_MISSING")
    ELSE IF validator[name] = "CONFIG_VALID_INT" THEN validate_int(v)
    ELSE IF validator[name] = "CONFIG_VALID_POS_INT" THEN validate_pos_int(v)
    ELSE "OK"

\* the empty dict, and dict.update
EmptyDict == [n \in {} |-> ""]

Update(d, e) == [n \in DOMAIN d \cup DOMAIN e |-> IF n \in DOMAIN e THEN e[n] ELSE d[n]]

\* name.upper().replace("-", "_") on the names of the model
EnvName ==
    ("my-int-config" :> "MY_INT_CONFIG") @@ ("my-str-config" :> "MY_STR_CONFIG")
       @@ ("rpc-max-workers" :> "RPC_MAX_WORKERS")

\* __load_env_config
LoadEnvConfig(env) ==
    [name \in {n \in Items : EnvName[n] \in DOMAIN env} |-> env[EnvName[name]]]

\* faulty variant of LoadDefaults: the environment applied after the CLI map
LoadDefaultsEnvLast(sys, usr, env, cli) ==
    Update(Update(Update(Update(hard_coded_default_value, sys), usr), cli), LoadEnvConfig(env))

\* __load_defaults: the five layers, applied from the lowest to the highest
LoadDefaults(sys, usr, env, cli) ==
    Update(Update(Update(Update(hard_coded_default_value, sys), usr), LoadEnvConfig(env)), cli)

\* ConfigManager.__init__ over the given layers and persisted file: the
\* constructor raises when a default does not validate (there is then no
\* manager); an invalid persisted value is replaced by the default
Construct(sys, usr, env, cli, currents) ==
    LET defaults == LoadDefaults(sys, usr, env, cli)
    IN  /\ \A name \in Items : Validate(name, defaults[name]) = "OK"
        /\ system_config = sys
        /\ user_config = usr
        /\ environ = env
        /\ cli_config = cli
        /\ default_value = [name \in Items |-> defaults[name]]
        /\ value = [name \in Items |->
                       IF name \in DOMAIN currents /\ Validate(name, currents[name]) = "OK"
                       THEN currents[name] ELSE defaults[name]]
        /\ config_json = currents
        /\ cfg_lock = 0
        /\ calls = <<>>
        /\ log = <<>>

\* the layers and persisted files a manager is started on
SystemConfigs == {EmptyDict, "my-int-config" :> "-78"}
UserConfigs == {EmptyDict, "my-int-config" :> "3"}
Environs == {EmptyDict, ("MY_INT_CONFIG" :> "8") @@ ("RPC_MAX_WORKERS" :> "8")}
CliConfigs == {EmptyDict, "my-int-config" :> "5"}
WorkspaceConfigs == {EmptyDict, "my-int-config" :> "777", "my-int-config" :> "invalid string"}

InitConfig ==
    \E sys \in SystemConfigs, usr \in UserConfigs, env \in Environs, cli \in CliConfigs,
       currents \in WorkspaceConfigs : Construct(sys, usr, env, cli, currents)

\* a manager started with no layer and no persisted file
InitConfigBare == Construct(EmptyDict, EmptyDict, EmptyDict, EmptyDict, EmptyDict)

\* the requests of the clients: Filter(names, ignore_unknown) of get and reset,
\* ConfigUpdate(items, ignore_unknown) of set
Request(op, names, items, ignore_unknown) ==
    [op |-> op, names |-> names, items |-> items, ignore_unknown |-> ignore_unknown]

CfgRequests ==
    { Request("get", {}, EmptyDict, FALSE),
      Request("get", {"my-int-config"}, EmptyDict, FALSE),
      Request("get", {"my-int-config", "unknown-item"}, EmptyDict, TRUE),
      Request("set", {"my-int-config"}, "my-int-config" :> "999", FALSE),
      Request("set", {"my-int-config"}, "my-int-config" :> "foo", FALSE),
      Request("set", {"my-int-config", "my-str-config"},
              ("my-int-config" :> "0") @@ ("my-str-config" :> "foo"), FALSE),
      Request("set", {"my-str-config", "my-int-config"},
              ("my-str-config" :> "bar") @@ ("my-int-config" :> ""), FALSE),
      Request("set", {"my-int-config", "rpc-max-workers"},
              ("my-int-config" :> "3") @@ ("rpc-max-workers" :> "5"), TRUE),
      Request("reset", {"my-int-config"}, EmptyDict, FALSE),
      Request("reset", {"my-int-config", "my-str-config"}, EmptyDict, FALSE),
      Request("reset", {}, EmptyDict, FALSE) }

\* faulty variant of FilterItems: the static items are served too
FilterItemsOfAll(names) == IF names = {} THEN Items ELSE names \cap Items

\* __filter_items / __merged_items: the user items named, all of them for an
\* empty list of names
FilterItems(names) == IF names = {} THEN UserItems ELSE names \cap UserItems

MergedItems(names) == [name \in FilterItems(names) |-> value[name]]

\* faulty variant of CheckItems: the unknown names are always ignored
CheckItemsIgnoreUnknown(input_names, items_to_check, ignore_unknown, empty_ok) ==
    IF ~empty_ok /\ input_names = {} THEN "ERROR_PARAM_MISSING"
    ELSE IF "" \in input_names THEN "ERROR_PARAM_MISSING"
    ELSE "OK"

\* __check_items: the result code of the exception raised, "OK" when none is
CheckItems(input_names, items_to_check, ignore_unknown, empty_ok) ==
    IF ~empty_ok /\ input_names = {} THEN "ERROR_PARAM_MISSING"
    ELSE IF "" \in input_names THEN "ERROR_PARAM_MISSING"
    ELSE IF ~ignore_unknown /\ input_names \ items_to_check # {} THEN "ERROR_ITEM_UNKNOWN"
    ELSE "OK"

\* faulty variant of CanAcquire: the handlers do not wait for the lock
CanAcquireUnlocked(c) == TRUE

\* "with self.lock": the RLock is free (no handler takes it twice)
CanAcquire(c) == cfg_lock = 0

\* the calls inside "with self.lock"
Inside == {c \in DOMAIN calls : calls[c].pc \notin {"wait", "done"}}

\* a client calls get, set or reset: the worker thread reaches "with self.lock"
CfgCall(request) ==
    /\ Len(calls) < MaxCfgCalls
    /\ calls' = Append(calls, [op |-> request.op, names |-> request.names,
                               items |-> request.items,
                               ignore_unknown |-> request.ignore_unknown,
                               pc |-> "wait", rc |-> "OK", ret |-> EmptyDict])
    /\ UNCHANGED <<system_config, user_config, environ, cli_config, default_value, value,
                   config_json, cfg_lock, log>>

\* the handler of call c leaves the lock with result code rc and returned items ret
Leave(c, rc, ret) ==
    /\ calls' = [calls EXCEPT ![c].pc = "done", ![c].rc = rc, ![c].ret = ret]
    /\ cfg_lock' = 0
    /\ log' = Append(log, c)

\* the handler of call c goes on to position pc, inside the lock
Goto(c, pc) ==
    /\ calls' = [calls EXCEPT ![c].pc = pc]
    /\ cfg_lock' = c
    /\ log' = log

\* ConfigManager.get up to its checks
GetCheck(c) ==
    /\ calls[c].op = "get" /\ calls[c].pc = "wait"
    /\ CanAcquire(c)
    /\ LET rc == CheckItems(calls[c].names, FilterItems(calls[c].names),
                            calls[c].ignore_unknown, TRUE)
       IN  IF rc # "OK" THEN Leave(c, rc, EmptyDict) ELSE Goto(c, "return")
    /\ UNCHANGED <<system_config, user_config, environ, cli_config, default_value, value,
                   config_json>>

\* ConfigManager.get: the ConfigStatus built from the items, and the lock released
GetReturn(c) ==
    /\ calls[c].op = "get" /\ calls[c].pc = "return"
    /\ Leave(c, "OK", MergedItems(calls[c].names))
    /\ UNCHANGED <<system_config, user_config, environ, cli_config, default_value, value,
                   config_json>>

\* ConfigManager.set up to the validation of every new value: nothing is updated
\* when one of them is refused
SetCheck(c) ==
    /\ calls[c].op = "set" /\ calls[c].pc = "wait"
    /\ CanAcquire(c)
    /\ LET req_map == calls[c].items
           rc == CheckItems(DOMAIN req_map, FilterItems(DOMAIN req_map),
                            calls[c].ignore_unknown, FALSE)
           refused == {name \in DOMAIN req_map \cap UserItems :
                          Validate(name, req_map[name]) # "OK"}
       IN  IF rc # "OK" THEN Leave(c, rc, EmptyDict)
           ELSE IF refused # {}
                THEN \E name \in refused : Leave(c, Validate(name, req_map[name]), EmptyDict)
                ELSE Goto(c, "update")
    /\ UNCHANGED <<system_config, user_config, environ, cli_config, default_value, value,
                   config_json>>

\* ConfigManager.set: "Finally, update local values"
SetUpdate(c) ==
    /\ calls[c].op = "set" /\ calls[c].pc = "update"
    /\ value' = [name \in Items |->
                    IF name \in DOMAIN calls[c].items \cap UserItems
                    THEN calls[c].items[name] ELSE value[name]]
    /\ Goto(c, "persist")
    /\ UNCHANGED <<system_config, user_config, environ, cli_config, default_value,
                   config_json>>

\* faulty variant of Persisted: every item whose value is not its default
PersistedAllItems == [name \in {n \in Items : value[n] # default_value[n]} |-> value[name]]

\* __persist: the user items whose value is not their default
Persisted == [name \in {n \in UserItems : value[n] # default_value[n]} |-> value[name]]

\* ConfigManager.set: "Persist updated local values"
SetPersist(c) ==
    /\ calls[c].op = "set" /\ calls[c].pc = "persist"
    /\ config_json' = Persisted
    /\ Goto(c, "return")
    /\ UNCHANGED <<system_config, user_config, environ, cli_config, default_value, value>>

\* ConfigManager.set: "Get again to build returned values", and the lock released
SetReturn(c) ==
    /\ calls[c].op = "set" /\ calls[c].pc = "return"
    /\ Leave(c, "OK", MergedItems(DOMAIN calls[c].items))
    /\ UNCHANGED <<system_config, user_config, environ, cli_config, default_value, value,
                   config_json>>

\* ConfigManager.reset up to its checks
ResetCheck(c) ==
    /\ calls[c].op = "reset" /\ calls[c].pc = "wait"
    /\ CanAcquire(c)
    /\ LET rc == CheckItems(calls[c].names, FilterItems(calls[c].names),
                            calls[c].ignore_unknown, FALSE)
       IN  IF rc # "OK" THEN Leave(c, rc, EmptyDict) ELSE Goto(c, "reset")
    /\ UNCHANGED <<system_config, user_config, environ, cli_config, default_value, value,
                   config_json>>

\* faulty variant of ResetValue: the default of the item's declaration
ResetValueHardCoded(name) == hard_coded_default_value[name]

\* Config.reset: the value the item is updated with
ResetValue(name) == default_value[name]

\* ConfigManager.reset: "Reset all local items to their default values" (nothing
\* is persisted by reset)
ResetItems(c) ==
    /\ calls[c].op = "reset" /\ calls[c].pc = "reset"
    /\ value' = [name \in Items |->
                    IF name \in calls[c].names \cap UserItems
                    THEN ResetValue(name) ELSE value[name]]
    /\ Goto(c, "return")
    /\ UNCHANGED <<system_config, user_config, environ, cli_config, default_value,
                   config_json>>

\* ConfigManager.reset: "Get again to build returned values", and the lock released
ResetReturn(c) ==
    /\ calls[c].op = "reset" /\ calls[c].pc = "return"
    /\ Leave(c, "OK", MergedItems(calls[c].names))
    /\ UNCHANGED <<system_config, user_config, environ, cli_config, default_value, value,
                   config_json>>

\* ------------------------------------------------------------ the RPC client
\* ResultCode values, numbered in the order of the Result enumeration
OK == 0
ERROR == 1
ERROR_RPC == 2
ERROR_API_CLIENT_TOO_OLD == 10
ERROR_API_SERVER_TOO_OLD == 11
ERROR_PROXY_UNREGISTERED == 13
ERROR_CUSTOM == 14

\* the code SampleServicer.method2 raises
SAMPLE_ERROR == 12

\* the Result codes the manager's methods answer or raise with; OK stands for a
\* method that raises nothing
ResultCodes == {OK, ERROR, SAMPLE_ERROR, ERROR_CUSTOM, ERROR_CUSTOM + 1}

\* the largest timeout of the clients built, and the default one of RpcClient
\* (60 s), in units of 500 ms
MaxTimeout == 2
DefaultTimeout == 120

\* the timeout argument of RpcClient: None, or <<t>> for t units of 500 ms
Timeouts == {None} \cup {<<t>> : t \in 0..MaxTimeout}

\* the number of elements the manager's streaming method yields before it ends or raises
MaxElements == 2

\* grpc.StatusCode of the RpcError raised by the stub
StatusCodes == {"UNAVAILABLE", "UNIMPLEMENTED"}

\* the time an attempt takes before its RpcError is raised, in units of 500 ms
Delays == {0, 1}

\* no exception raised by the wrapper, no response returned
NoCode == -1

\* RpcClient(timeout, exception): the RetryMethod of a stub method, not called yet
InitClient(timeout, exception) ==
    /\ client = [pc |-> "idle", method |-> "simple", timeout |-> timeout,
                 exception |-> exception, first_try |-> 0, retries |-> 0,
                 error |-> "none", response |-> NoCode, received |-> 0,
                 yielded |-> <<>>, result |-> NoCode, rc |-> NoCode]
    /\ client_time = 0
    /\ server = [k |-> 0, c |-> OK, out |-> <<>>, ended |-> TRUE]
    /\ listener = [pc |-> "idle", client_id |-> None, ready |-> FALSE, stream |-> 0,
                   seen |-> 0]

\* RetryMethod.prelude at the start of __call__: first_try is read; the manager's
\* method will yield k elements (streaming) and raise c, or answer c (simple)
Prelude(method, k, c) ==
    /\ client.pc = "idle"
    /\ client' = [client EXCEPT !.pc = "call", !.method = method,
                                !.first_try = client_time]
    /\ server' = [server EXCEPT !.k = k, !.c = c]
    /\ UNCHANGED client_time

\* faulty variant of Raises: every code above OK is raised
RaisesAnyNonOk(code, exception) == code > OK /\ exception

\* RetryMethod.raise_result: the result makes the wrapper raise
\* custom_exception(rc = code)
Raises(code, exception) == code > OK /\ code < ERROR_CUSTOM /\ exception

\* RetrySimpleMethod.__call__, the stub answers: RpcSimpleMethod returns the
\* manager's result, or the Result of report_exception with the code raised;
\* raise_result, then the result is returned
StubCallSimple ==
    /\ client.pc = "call" /\ client.method = "simple"
    /\ client' = [client EXCEPT !.pc = "done", !.response = server.c,
                     !.rc = IF Raises(server.c, client.exception) THEN server.c ELSE NoCode,
                     !.result = IF Raises(server.c, client.exception) THEN NoCode
                                ELSE server.c]
    /\ UNCHANGED <<client_time, server>>

\* RetryStreamingMethod.__call__, the stub returns the stream: RpcStreamingMethod
\* starts on the server
StubCallStream ==
    /\ client.pc = "call" /\ client.method = "stream"
    /\ client' = [client EXCEPT !.pc = "iterate", !.received = 0]
    /\ server' = [server EXCEPT !.out = <<>>, !.ended = FALSE]
    /\ UNCHANGED client_time

\* the stub raises RpcError(status) after delay units, at the call or while the
\* stream is iterated
StubError(status, delay) ==
    /\ client.pc \in {"call", "iterate"}
    /\ client' = [client EXCEPT !.pc = "except", !.error = status]
    /\ client_time' = client_time + delay
    /\ server' = [server EXCEPT !.ended = TRUE]

\* RpcStreamingMethod.__call__ on the server: the next element of the manager's
\* producer is yielded; when the producer raises, the Result of report_exception
\* is yielded and the stream ends; when it is exhausted the stream ends
ServerYield ==
    /\ ~server.ended
    /\ server' = IF Len(server.out) < server.k
                 THEN [server EXCEPT !.out = Append(@, OK)]
                 ELSE IF server.c # OK
                      THEN [server EXCEPT !.out = Append(@, server.c), !.ended = TRUE]
                      ELSE [server EXCEPT !.ended = TRUE]
    /\ UNCHANGED <<client, client_time>>

\* RetryStreamingMethod.__call__, one turn of "for result in": raise_result, then
\* the result is yielded to the caller
StreamNext ==
    /\ client.pc = "iterate"
    /\ client.received < Len(server.out)
    /\ LET code == server.out[client.received + 1]
       IN  client' = IF Raises(code, client.exception)
                     THEN [client EXCEPT !.pc = "done", !.received = @ + 1,
                                         !.response = code, !.rc = code]
                     ELSE [client EXCEPT !.received = @ + 1, !.response = code,
                                         !.yielded = Append(@, code)]
    /\ UNCHANGED <<client_time, server>>

\* RetryStreamingMethod.__call__: the stream is exhausted, "break"
StreamEnd ==
    /\ client.pc = "iterate"
    /\ server.ended /\ client.received = Len(server.out)
    /\ client' = [client EXCEPT !.pc = "done"]
    /\ UNCHANGED <<client_time, server>>

\* faulty variant of CanRetry: the time since the first try is not looked at
CanRetryForever(status, timeout, first_try, time) ==
    status = "UNAVAILABLE" /\ timeout # None

\* the condition of RetryMethod.handle_exception
CanRetry(status, timeout, first_try, time) ==
    /\ status = "UNAVAILABLE"
    /\ timeout # None
    /\ time - first_try < timeout[1]

\* RetryMethod.handle_exception: go to sleep before the retry, or raise
\* RpcException(rc = ERROR_RPC)
HandleException ==
    /\ client.pc = "except"
    /\ client' = IF CanRetry(client.error, client.timeout, client.first_try, client_time)
                 THEN [client EXCEPT !.pc = "sleep"]
                 ELSE [client EXCEPT !.pc = "done", !.rc = ERROR_RPC]
    /\ UNCHANGED <<client_time, server>>

\* time.sleep(0.5) of handle_exception returns: back to the top of "while True"
Sleep ==
    /\ client.pc = "sleep"
    /\ client' = [client EXCEPT !.pc = "call", !.retries = @ + 1]
    /\ client_time' = client_time + 1
    /\ UNCHANGED server

\* the steps of a call once it is made
CallStep ==
    \/ StubCallSimple
    \/ StubCallStream
    \/ \E status \in StatusCodes, delay \in Delays : StubError(status, delay)
    \/ ServerYield
    \/ StreamNext
    \/ StreamEnd
    \/ HandleException
    \/ Sleep

\* ------------------------------------------------------------ the RPC server
\* the number of calls made to the server
MaxSrvCalls == 3

\* the version of a service that no proxy_register has set: the module
\* title and version of its descriptor
DefaultVersion == "grpc-helper"

\* RpcServiceDescriptor(name, api_version, is_proxy); api_version is the set of
\* values of the version enum without 0
Descriptor(name, api_version, is_proxy) ==
    [name |-> name, api_version |-> api_version, is_proxy |-> is_proxy]

\* the services every server adds before the ones of its caller
BuiltIn ==
    <<Descriptor("srv", {1}, FALSE), Descriptor("config", {1}, FALSE),
      Descriptor("log", {1}, FALSE)>>

Max(S) == CHOOSE x \in S : \A y \in S : y <= x
Min(S) == CHOOSE x \in S : \A y \in S : x <= y

\* RpcServer.__init__, "Build info for service": the ServiceInfo of descriptor d
\* on a workspace whose proxy.json holds file
BuildInfo(d, file) ==
    LET persisted == d.name \in DOMAIN file
    IN  [name |-> d.name,
         version |-> IF persisted THEN file[d.name].version ELSE DefaultVersion,
         current_api_version |-> Max(d.api_version),
         supported_api_version |-> Min(d.api_version),
         is_proxy |-> d.is_proxy,
         proxy_port |-> IF persisted THEN file[d.name].port ELSE 0,
         proxy_host |-> IF persisted THEN file[d.name].host ELSE ""]

\* the names of a sequence of descriptors
NamesOf(descs) == {descs[i].name : i \in DOMAIN descs}

\* RpcServer.__init__: __info of the services of descs on a workspace whose
\* proxy.json holds file
LoadInfo(descs, file) ==
    [name \in NamesOf(descs) |->
        BuildInfo(CHOOSE d \in {descs[i] : i \in DOMAIN descs} : d.name = name, file)]

\* RpcServer(port, descriptors, folders): a running server with no call yet
InitServer(user, file) ==
    /\ descriptors = BuiltIn \o user
    /\ info = LoadInfo(BuiltIn \o user, file)
    /\ proxy_json = file
    /\ srv_lock = 0
    /\ srv_calls = <<>>
    /\ srv_log = <<>>
    /\ srv_time = 0
    /\ hooks = <<>>
    /\ rpc_server = <<"grpc">>
    /\ is_running = TRUE
    /\ transport = [stops |-> 0, stop_time |-> None, aborted |-> {}]
    /\ shutdowns = <<>>
    /\ waits = <<>>

\* a call to the server that has not started: the request (op, names, version,
\* host, port for the srv service; service, api_version, declared type and
\* behaviour of the method for a dispatched call) and the state of its handler
NewCall ==
    [op |-> "", names |-> <<>>, version |-> "", host |-> "", port |-> 0,
     service |-> "", api_version |-> None, return_type |-> "", raises |-> "",
     code |-> OK, pc |-> "start", rc |-> "OK", ip |-> 0, before |-> EmptyDict,
     seen |-> EmptyDict, first_try |-> 0, wake |-> 0, ended |-> 0,
     target |-> None, response |-> None, logged |-> FALSE]

ProxyRegisterRequest(names, version, host, port) ==
    [NewCall EXCEPT !.op = "proxy_register", !.names = names, !.version = version,
                    !.host = host, !.port = port]

\* Filter(names) sent to proxy_forget or to info
FilterRequest(op, names) == [NewCall EXCEPT !.op = op, !.names = names]

\* faulty variant of CheckProxyRequest: proxy_register checks its version and
\* port before the names
CheckProxyRequestParamsFirst(call) ==
    LET names == {call.names[i] : i \in DOMAIN call.names}
    IN  IF call.op = "proxy_register" /\ (call.version = "" \/ call.port = 0)
        THEN "ERROR_PARAM_MISSING"
        ELSE IF call.names = <<>> \/ "" \in names THEN "ERROR_PARAM_MISSING"
        ELSE IF names \ DOMAIN info # {} THEN "ERROR_ITEM_UNKNOWN"
        ELSE IF \E n \in names : ~info[n].is_proxy THEN "ERROR_PARAM_INVALID"
        ELSE "OK"

\* __check_service_names and __check_proxy_names, then the check of version and
\* port by proxy_register: the code of the exception raised, "OK" when none is
CheckProxyRequest(call) ==
    LET names == {call.names[i] : i \in DOMAIN call.names}
    IN  IF call.names = <<>> \/ "" \in names THEN "ERROR_PARAM_MISSING"
        ELSE IF names \ DOMAIN info # {} THEN "ERROR_ITEM_UNKNOWN"
        ELSE IF \E n \in names : ~info[n].is_proxy THEN "ERROR_PARAM_INVALID"
        ELSE IF call.op = "proxy_register" /\ (call.version = "" \/ call.port = 0)
             THEN "ERROR_PARAM_MISSING"
        ELSE "OK"

\* faulty variant of Assignments: proxy_forget clears the version too
AssignmentsClearVersion(call) ==
    IF call.op = "proxy_register"
    THEN <<[field |-> "version", val |-> call.version],
           [field |-> "proxy_port", val |-> call.port],
           [field |-> "proxy_host", val |-> call.host]>>
    ELSE <<[field |-> "version", val |-> DefaultVersion],
           [field |-> "proxy_port", val |-> 0], [field |-> "proxy_host", val |-> ""]>>

\* the assignments of "for srv in services", in the order the code makes them
Assignments(call) ==
    IF call.op = "proxy_register"
    THEN <<[field |-> "version", val |-> call.version],
           [field |-> "proxy_port", val |-> call.port],
           [field |-> "proxy_host", val |-> call.host]>>
    ELSE <<[field |-> "proxy_port", val |-> 0], [field |-> "proxy_host", val |-> ""]>>

\* faulty variant of ProxiesModel: every proxy service is saved
ProxiesModelOfAll(infos) ==
    [name \in {n \in DOMAIN infos : infos[n].is_proxy} |->
        [host |-> infos[name].proxy_host, port |-> infos[name].proxy_port,
         version |-> infos[name].version]]

\* __persist_proxies: the model saved, the proxy services whose port is set
ProxiesModel(infos) ==
    [name \in {n \in DOMAIN infos : infos[n].is_proxy /\ infos[n].proxy_port > 0} |->
        [host |-> infos[name].proxy_host, port |-> infos[name].proxy_port,
         version |-> infos[name].version]]

\* a request reaches the server: a worker thread starts on its handler
SrvCall(request) ==
    /\ hooks = <<>>
    /\ Len(srv_calls) < MaxSrvCalls
    /\ srv_calls' = Append(srv_calls, request)
    /\ UNCHANGED <<descriptors, info, proxy_json, srv_lock, srv_log, srv_time, hooks>>

\* proxy_register and proxy_forget, "Verify input params": a bad request is
\* answered with the code of the exception
ProxyCheck(c) ==
    /\ srv_calls[c].op \in {"proxy_register", "proxy_forget"} /\ srv_calls[c].pc = "start"
    /\ LET rc == CheckProxyRequest(srv_calls[c])
       IN  srv_calls' = [srv_calls EXCEPT ![c].pc = IF rc = "OK" THEN "lock" ELSE "done",
                                          ![c].rc = rc]
    /\ UNCHANGED <<descriptors, info, proxy_json, srv_lock, srv_log, srv_time, hooks>>

\* "with self.lock" of proxy_register and proxy_forget
ProxyLock(c) ==
    /\ srv_calls[c].pc = "lock" /\ srv_lock = 0
    /\ srv_lock' = c
    /\ srv_calls' = [srv_calls EXCEPT ![c].pc = "update", ![c].before = info]
    /\ srv_log' = Append(srv_log, c)
    /\ UNCHANGED <<descriptors, info, proxy_json, srv_time, hooks>>

\* one assignment of "for srv in services": field a of the ServiceInfo of the
\* k-th name, position ip of the loop
ProxyUpdate(c) ==
    /\ srv_calls[c].pc = "update"
    /\ LET call == srv_calls[c]
           todo == Assignments(call)
           k == (call.ip \div Len(todo)) + 1
           a == (call.ip % Len(todo)) + 1
           last == call.ip + 1 = Len(call.names) * Len(todo)
       IN  /\ info' = [info EXCEPT ![call.names[k]][todo[a].field] = todo[a].val]
           /\ srv_calls' = [srv_calls EXCEPT ![c].ip = @ + 1,
                                             ![c].pc = IF last THEN "persist" ELSE "update"]
    /\ UNCHANGED <<descriptors, proxy_json, srv_lock, srv_log, srv_time, hooks>>

\* __persist_proxies inside the lock, then the lock released and ResultStatus() returned
ProxyPersist(c) ==
    /\ srv_calls[c].pc = "persist"
    /\ proxy_json' = ProxiesModel(info)
    /\ srv_lock' = 0
    /\ srv_calls' = [srv_calls EXCEPT ![c].pc = "done", ![c].ended = srv_time]
    /\ UNCHANGED <<descriptors, info, srv_log, srv_time, hooks>>

\* RpcServer.info: the ServiceInfo of the names asked, of every service when none
\* is; the lock is not taken
Info(c) ==
    /\ srv_calls[c].op = "info" /\ srv_calls[c].pc = "start"
    /\ LET names == {srv_calls[c].names[i] : i \in DOMAIN srv_calls[c].names}
       IN  srv_calls' =
               IF names \ DOMAIN info # {}
               THEN [srv_calls EXCEPT ![c].pc = "done", ![c].rc = "ERROR_ITEM_UNKNOWN"]
               ELSE [srv_calls EXCEPT ![c].pc = "done",
                        ![c].seen = [n \in (IF names = {} THEN DOMAIN info ELSE names)
                                        |-> info[n]]]
    /\ UNCHANGED <<descriptors, info, proxy_json, srv_lock, srv_log, srv_time, hooks>>

\* RpcServer.shutdown: the server stops accepting requests and the _shutdown of
\* the managers of __real_descriptors is called, one after the other
Shutdown ==
    /\ hooks = <<>>
    /\ hooks' = [i \in 1..Len(SelectSeq(descriptors, LAMBDA d : ~d.is_proxy)) |->
                    SelectSeq(descriptors, LAMBDA d : ~d.is_proxy)[i].name]
    /\ UNCHANGED <<descriptors, info, proxy_json, srv_lock, srv_calls, srv_log, srv_time>>

\* a fresh RpcServer built with the same descriptors on the same workspace, once
\* the former one is shut down and its requests are over
RestartServer ==
    /\ hooks # <<>>
    /\ \A c \in DOMAIN srv_calls : srv_calls[c].pc = "done"
    /\ info' = LoadInfo(descriptors, proxy_json)
    /\ srv_calls' = <<>>
    /\ srv_log' = <<>>
    /\ hooks' = <<>>
    /\ UNCHANGED <<descriptors, proxy_json, srv_lock, srv_time>>

\* --------------------------------------------------- the dispatch of a call
\* the clock of the server's host, counted in sleeps of the proxy wait (0.5 s)
MaxSrvTime == 3

\* rpc-client-timeout, in the same unit
CLIENT_TIMEOUT == 2

\* rpc-main-host, and the address the peer that serves "sample" listens on
MAIN_HOST == "localhost"
PeerAddress == <<"localhost", 1>>

\* a call to a method of a user service: the api_version of its metadata (None
\* when it has none), the return annotation of the manager's method, what the
\* method does (returns, raises RpcException(rc = code), raises another
\* exception)
MethodCall(service, api_version, return_type, raises, code) ==
    [NewCall EXCEPT !.op = "call", !.service = service, !.api_version = api_version,
                    !.return_type = return_type, !.raises = raises, !.code = code]

\* RpcServicer.__init__: the return_type given to the RpcMethod of a call, None
\* for a proxy method
ReturnType(call) == IF info[call.service].is_proxy THEN None ELSE <<call.return_type>>

\* "except Exception as e": the result built from the exception, a ResultStatus
\* when return_type is None
ReportException(return_type, rc, msg) ==
    [type |-> IF return_type = None THEN "ResultStatus" ELSE return_type[1],
     code |-> rc, msg |-> msg]

\* what the dispatcher of the server the manager lives on answers: the result
\* of the manager's method, or the one built from the exception it raises
ManagerResponse(call) ==
    CASE call.raises = "none" -> [type |-> call.return_type, code |-> OK, msg |-> "result"]
      [] call.raises = "RpcException" ->
             ReportException(<<call.return_type>>, call.code, "sample error")
      [] OTHER -> ReportException(<<call.return_type>>, ERROR, "sample error")

\* faulty variant of ForwardException: the temporary client raises on an error
\* Result
ForwardExceptionRaised == TRUE

\* the exception argument of the temporary client to the proxied server
ForwardException == FALSE

\* faulty variant of VerifyApiVersion: a client newer than the server is let in
VerifyApiVersionNoUpper(api_version, i) ==
    IF api_version # None /\ api_version[1] < i.supported_api_version
    THEN ERROR_API_CLIENT_TOO_OLD
    ELSE OK

\* "Verify API version": the code of the RpcException raised, OK when none is
VerifyApiVersion(api_version, i) ==
    IF api_version # None /\ api_version[1] > i.current_api_version
    THEN ERROR_API_SERVER_TOO_OLD
    ELSE IF api_version # None /\ api_version[1] < i.supported_api_version
    THEN ERROR_API_CLIENT_TOO_OLD
    ELSE OK

\* RpcMethod.__call__ up to its first poll: the call is logged under the lock
\* (field logged: it is in RpcServer.calls), its api_version is verified, then
\* the manager's method is called or the wait for the proxy begins; a call that
\* ends is removed from RpcServer.calls
DispatchCheck(c) ==
    /\ srv_calls[c].op = "call" /\ srv_calls[c].pc = "start"
    /\ srv_lock = 0
    /\ LET call == srv_calls[c]
           i == info[call.service]
           rc == VerifyApiVersion(call.api_version, i)
       IN  srv_calls' =
               IF rc # OK
               THEN [srv_calls EXCEPT ![c].pc = "done", ![c].before = info,
                        ![c].response =
                            <<ReportException(ReturnType(call), rc, "too old")>>]
               ELSE IF i.is_proxy
               THEN [srv_calls EXCEPT ![c].pc = "poll", ![c].before = info,
                                      ![c].first_try = srv_time, ![c].logged = TRUE]
               ELSE [srv_calls EXCEPT ![c].pc = "done", ![c].before = info,
                                      ![c].target = <<"manager">>,
                                      ![c].response = <<ManagerResponse(call)>>]
    /\ UNCHANGED <<descriptors, info, proxy_json, srv_lock, srv_log, srv_time, hooks>>

\* one turn of "while self.info.proxy_port == 0"
DispatchPoll(c) ==
    /\ srv_calls[c].pc = "poll"
    /\ LET call == srv_calls[c]
       IN  srv_calls' =
               IF info[call.service].proxy_port # 0
               THEN [srv_calls EXCEPT ![c].pc = "forward"]
               ELSE IF srv_time - call.first_try < CLIENT_TIMEOUT
               THEN [srv_calls EXCEPT ![c].pc = "sleep", ![c].wake = srv_time + 1]
               ELSE [srv_calls EXCEPT ![c].pc = "done", ![c].logged = FALSE,
                        ![c].response = <<ReportException(ReturnType(call),
                                             ERROR_PROXY_UNREGISTERED, "not registered")>>]
    /\ UNCHANGED <<descriptors, info, proxy_json, srv_lock, srv_log, srv_time, hooks>>

\* time.sleep(0.5) returns
DispatchWake(c) ==
    /\ srv_calls[c].pc = "sleep" /\ srv_time >= srv_calls[c].wake
    /\ srv_calls' = [srv_calls EXCEPT ![c].pc = "poll"]
    /\ UNCHANGED <<descriptors, info, proxy_json, srv_lock, srv_log, srv_time, hooks>>

\* the temporary client is built from proxy_host and proxy_port as they are
\* now, and the remote method is called: the peer's result comes back through
\* raise_result, and a server nobody listens on makes the client raise
\* RpcException(rc = ERROR_RPC)
DispatchForward(c) ==
    /\ srv_calls[c].pc = "forward"
    /\ LET call == srv_calls[c]
           i == info[call.service]
           host == IF i.proxy_host # "" THEN i.proxy_host ELSE MAIN_HOST
           peer == ManagerResponse(call)
       IN  srv_calls' = [srv_calls EXCEPT
               ![c].pc = "done", ![c].logged = FALSE,
               ![c].target = <<host, i.proxy_port>>,
               ![c].response =
                   IF <<host, i.proxy_port>> # PeerAddress
                   THEN <<ReportException(ReturnType(call), ERROR_RPC, "RPC error")>>
                   ELSE IF Raises(peer.code, ForwardException)
                   THEN <<ReportException(ReturnType(call), peer.code, "RPC returned error")>>
                   ELSE <<peer>>]
    /\ UNCHANGED <<descriptors, info, proxy_json, srv_lock, srv_log, srv_time, hooks>>

\* ------------------------------------------------- the streaming methods
\* a call to a server-streaming method of a user service
StreamCall(service, api_version, raises, code) ==
    [MethodCall(service, api_version, "ResultStatus", raises, code) EXCEPT !.op = "stream"]

\* RpcStreamingMethod.__call__, first next() of the generator: prelude logs the
\* call under the lock, delegate_call verifies the version; an exception raised
\* there is yielded as the Result of report_exception
StreamStart(c) ==
    /\ srv_calls[c].op = "stream" /\ srv_calls[c].pc = "start"
    /\ srv_lock = 0
    /\ LET call == srv_calls[c]
           rc == VerifyApiVersion(call.api_version, info[call.service])
       IN  srv_calls' =
               IF rc # OK
               THEN [srv_calls EXCEPT ![c].pc = "last", ![c].logged = TRUE,
                        ![c].response = <<ReportException(<<call.return_type>>, rc, "too old")>>]
               ELSE [srv_calls EXCEPT ![c].pc = "iterate", ![c].logged = TRUE,
                                      ![c].target = <<"manager">>]
    /\ UNCHANGED <<descriptors, info, proxy_json, srv_lock, srv_log, srv_time, hooks>>

\* "for result in result_provider: yield result": one more element of the
\* manager's producer is yielded (ip counts them)
StreamYield(c) ==
    /\ srv_calls[c].pc = "iterate" /\ srv_calls[c].ip < MaxElements
    /\ srv_calls' = [srv_calls EXCEPT ![c].ip = @ + 1]
    /\ UNCHANGED <<descriptors, info, proxy_json, srv_lock, srv_log, srv_time, hooks>>

\* the producer is exhausted, or raises: the Result of report_exception is
\* yielded
StreamFinish(c) ==
    /\ srv_calls[c].pc = "iterate"
    /\ LET call == srv_calls[c]
       IN  srv_calls' =
               IF call.raises = "none"
               THEN [srv_calls EXCEPT ![c].pc = "epilog"]
               ELSE [srv_calls EXCEPT ![c].pc = "last",
                                      ![c].response = <<ManagerResponse(call)>>]
    /\ UNCHANGED <<descriptors, info, proxy_json, srv_lock, srv_log, srv_time, hooks>>

\* "Call epilog", after the loop or after the yield of the error: the call is
\* removed from RpcServer.calls under the lock and the generator ends
StreamEpilog(c) ==
    /\ srv_calls[c].pc \in {"epilog", "last"}
    /\ srv_lock = 0
    /\ srv_calls' = [srv_calls EXCEPT ![c].pc = "done", ![c].logged = FALSE]
    /\ UNCHANGED <<descriptors, info, proxy_json, srv_lock, srv_log, srv_time, hooks>>

\* the consumer abandons the stream (call cancelled, transport closed) while the
\* generator is suspended at a yield: the generator is closed, GeneratorExit is
\* no Exception and the code after the try is not run
StreamAbandon(c) ==
    /\ \/ srv_calls[c].pc = "iterate" /\ srv_calls[c].ip > 0
       \/ srv_calls[c].pc = "last"
    /\ srv_calls' = [srv_calls EXCEPT ![c].pc = "closed"]
    /\ UNCHANGED <<descriptors, info, proxy_json, srv_lock, srv_log, srv_time, hooks>>

\* time passes on the server's host
SrvTick ==
    /\ srv_time < MaxSrvTime
    /\ srv_time' = srv_time + 1
    /\ UNCHANGED <<descriptors, info, proxy_json, srv_lock, srv_calls, srv_log, hooks>>

\* ------------------------------------------------------ the life of a server
\* the calls of RpcServer.shutdown in one run
MaxShutdowns == 2

\* the calls of wait_shutdown in one run
MaxWaits == 1

\* the calls in flight when the server is shut down
MaxLifeCalls == 1

\* rpc-shutdown-grace and rpc-shutdown-timeout, in units of the server's clock
SHUTDOWN_GRACE == 2
SHUTDOWN_TIMEOUT == 1

\* the requests of shutdown: None for an internal call, or <<timeout>> for a
\* ShutdownRequest(timeout) received by srv.shutdown
ShutdownRequests == {None, <<-1>>, <<0>>, <<1>>}

\* a call of RpcServer.shutdown that has not begun: terminating_server is its
\* local variable, hook the index in __real_descriptors of the next _shutdown,
\* fin the position of its __finalize_shutdown
NewShutdown(request) ==
    [request |-> request, pc |-> "check", terminating_server |-> None, hook |-> 1,
     fin |-> "none", until |-> 0, response |-> None]

\* the managers of __real_descriptors, by name, in the order of the list
RealDescriptors == SelectSeq(descriptors, LAMBDA d : ~d.is_proxy)

\* the srv.shutdown requests whose handler has not returned
ShutdownHandlers ==
    {s \in DOMAIN shutdowns : shutdowns[s].request # None /\ shutdowns[s].pc # "done"}

\* the requests the transport is serving: those a stop() waits for
Serving ==
    {<<"call", c>> : c \in {c \in DOMAIN srv_calls : srv_calls[c].pc = "run"}}
        \cup {<<"shutdown", s>> : s \in ShutdownHandlers \ transport.aborted}

\* faulty variant of WaitForTermination: the finalization does not wait
WaitForTerminationNone == TRUE

\* terminating_server.wait_for_termination() returns: the server was stopped and
\* every request it served has ended or was aborted at the end of the grace
WaitForTermination == transport.stops > 0 /\ Serving = {}

\* the statements of shutdown take no time: the clock advances while its callers
\* wait (join of a thread, wait_for_termination, sleep) or are over
Computing ==
    \E s \in DOMAIN shutdowns :
        \/ shutdowns[s].pc \in {"check", "read", "clear", "stop", "hooks"}
        \/ shutdowns[s].fin = "clean"

\* shutdown is called: by the transport for a srv.shutdown it accepted, or by the
\* program
ShutdownCall(request) ==
    /\ Len(shutdowns) < MaxShutdowns
    /\ request # None => transport.stops = 0
    /\ shutdowns' = Append(shutdowns, NewShutdown(request))
    /\ UNCHANGED <<descriptors, info, proxy_json, srv_lock, srv_calls, srv_log, srv_time,
                   hooks, rpc_server, is_running, transport, waits>>

\* "if self.__server is not None"; when it is None, "Always OK"
ShutdownCheck(s) ==
    /\ shutdowns[s].pc = "check"
    /\ shutdowns' = IF rpc_server # None
                    THEN [shutdowns EXCEPT ![s].pc = "read"]
                    ELSE [shutdowns EXCEPT ![s].pc = "done", ![s].response = <<OK>>]
    /\ UNCHANGED <<descriptors, info, proxy_json, srv_lock, srv_calls, srv_log, srv_time,
                   hooks, rpc_server, is_running, transport, waits>>

\* "terminating_server = self.__server"
ShutdownRead(s) ==
    /\ shutdowns[s].pc = "read"
    /\ shutdowns' = [shutdowns EXCEPT ![s].pc = "clear", ![s].terminating_server = rpc_server]
    /\ UNCHANGED <<descriptors, info, proxy_json, srv_lock, srv_calls, srv_log, srv_time,
                   hooks, rpc_server, is_running, transport, waits>>

\* "self.__server = None"
ShutdownClear(s) ==
    /\ shutdowns[s].pc = "clear"
    /\ rpc_server' = None
    /\ shutdowns' = [shutdowns EXCEPT ![s].pc = "stop"]
    /\ UNCHANGED <<descriptors, info, proxy_json, srv_lock, srv_calls, srv_log, srv_time,
                   hooks, is_running, transport, waits>>

\* "terminating_server.stop(SHUTDOWN_GRACE)": the transport refuses new requests
\* and its grace begins at the first stop; stop does not block. On None the call
\* raises AttributeError: the dispatcher of srv.shutdown answers ERROR, an
\* internal caller gets the exception (pc "raised")
ShutdownStop(s) ==
    /\ shutdowns[s].pc = "stop"
    /\ IF shutdowns[s].terminating_server = None
       THEN /\ shutdowns' = IF shutdowns[s].request # None
                            THEN [shutdowns EXCEPT ![s].pc = "done", ![s].response = <<ERROR>>]
                            ELSE [shutdowns EXCEPT ![s].pc = "raised"]
            /\ UNCHANGED transport
       ELSE /\ shutdowns' = [shutdowns EXCEPT ![s].pc = "hooks"]
            /\ transport' = [transport EXCEPT !.stops = @ + 1,
                   !.stop_time = IF @ = None THEN <<srv_time>> ELSE @]
    /\ UNCHANGED <<descriptors, info, proxy_json, srv_lock, srv_calls, srv_log, srv_time,
                   hooks, rpc_server, is_running, waits>>

\* "descriptor.manager._shutdown()" of a manager that is not the EventsManager:
\* it returns
ShutdownHook(s) ==
    /\ shutdowns[s].pc = "hooks"
    /\ shutdowns[s].hook <= Len(RealDescriptors)
    /\ RealDescriptors[shutdowns[s].hook].name # "events"
    /\ hooks' = Append(hooks, RealDescriptors[shutdowns[s].hook].name)
    /\ shutdowns' = [shutdowns EXCEPT ![s].hook = @ + 1]
    /\ UNCHANGED <<descriptors, info, proxy_json, srv_lock, srv_calls, srv_log, srv_time,
                   rpc_server, is_running, transport, waits>>

\* "descriptor.manager._shutdown()" of the EventsManager begins: it takes the
\* lock, sets the stop event and joins the keep-alive thread
ShutdownHookEvents(s) ==
    /\ shutdowns[s].pc = "hooks"
    /\ shutdowns[s].hook <= Len(RealDescriptors)
    /\ RealDescriptors[shutdowns[s].hook].name = "events"
    /\ ShutdownBegin
    /\ shutdowns' = [shutdowns EXCEPT ![s].pc = "join"]
    /\ UNCHANGED <<descriptors, info, proxy_json, srv_lock, srv_calls, srv_log, srv_time,
                   hooks, rpc_server, is_running, transport, waits>>

\* the join returned and the _shutdown of the EventsManager ends
ShutdownHookJoined(s) ==
    /\ shutdowns[s].pc = "join"
    /\ ShutdownEnd
    /\ hooks' = Append(hooks, "events")
    /\ shutdowns' = [shutdowns EXCEPT ![s].pc = "hooks", ![s].hook = @ + 1]
    /\ UNCHANGED <<descriptors, info, proxy_json, srv_lock, srv_calls, srv_log, srv_time,
                   rpc_server, is_running, transport, waits>>

\* the _shutdown of the EventsManager called once more, after another call of
\* shutdown ended it: the lock is free and the thread has exited, the statuses
\* are pushed again
ShutdownHookAgain(s) ==
    /\ shutdowns[s].pc = "hooks"
    /\ shutdowns[s].hook <= Len(RealDescriptors)
    /\ RealDescriptors[shutdowns[s].hook].name = "events"
    /\ shutdown_pc = "done" /\ lock = "free" /\ ka_pc = "exit"
    /\ qobj' = [o \in DOMAIN qobj |->
                  IF \E index \in DOMAIN queues : queues[index] = o
                  THEN Append(qobj[o], ShutdownStatus) ELSE qobj[o]]
    /\ hooks' = Append(hooks, "events")
    /\ shutdowns' = [shutdowns EXCEPT ![s].hook = @ + 1]
    /\ UNCHANGED <<queues, interrupt_times, queues_json, lock, keep_alive_stop, ka_pc,
                   ka_init_time, shutdown_pc, now, streams, interrupts, sends>>
    /\ UNCHANGED <<descriptors, info, proxy_json, srv_lock, srv_calls, srv_log, srv_time,
                   rpc_server, is_running, transport, waits>>

\* "Is this an RPC call?": the finalization gets its own thread and the request
\* returns, or the finalization runs in the caller
ShutdownSpawn(s) ==
    /\ shutdowns[s].pc = "hooks"
    /\ shutdowns[s].hook > Len(RealDescriptors)
    /\ shutdowns' = IF shutdowns[s].request # None
                    THEN [shutdowns EXCEPT ![s].pc = "done", ![s].fin = "wait",
                                           ![s].response = <<OK>>]
                    ELSE [shutdowns EXCEPT ![s].pc = "finalize", ![s].fin = "wait"]
    /\ UNCHANGED <<descriptors, info, proxy_json, srv_lock, srv_calls, srv_log, srv_time,
                   hooks, rpc_server, is_running, transport, waits>>

\* __finalize_shutdown: wait_for_termination returns; "Need to wait before real
\* shutdown?"
FinalizeWait(s) ==
    /\ shutdowns[s].fin = "wait"
    /\ WaitForTermination
    /\ LET request == shutdowns[s].request
       IN  shutdowns' =
               IF request # None /\ request[1] >= 0
               THEN [shutdowns EXCEPT ![s].fin = "sleep",
                        ![s].until = srv_time + (IF request[1] > 0 THEN request[1]
                                                 ELSE SHUTDOWN_TIMEOUT)]
               ELSE [shutdowns EXCEPT ![s].fin = "clean"]
    /\ UNCHANGED <<descriptors, info, proxy_json, srv_lock, srv_calls, srv_log, srv_time,
                   hooks, rpc_server, is_running, transport, waits>>

\* time.sleep(timeout) returns
FinalizeWake(s) ==
    /\ shutdowns[s].fin = "sleep"
    /\ srv_time >= shutdowns[s].until
    /\ shutdowns' = [shutdowns EXCEPT ![s].fin = "clean"]
    /\ UNCHANGED <<descriptors, info, proxy_json, srv_lock, srv_calls, srv_log, srv_time,
                   hooks, rpc_server, is_running, transport, waits>>

\* the rotating handlers are removed and "self.__is_running = False"; an
\* internal call of shutdown then returns its ResultStatus
FinalizeEnd(s) ==
    /\ shutdowns[s].fin = "clean"
    /\ is_running' = FALSE
    /\ shutdowns' = IF shutdowns[s].pc = "finalize"
                    THEN [shutdowns EXCEPT ![s].fin = "done", ![s].pc = "done",
                                           ![s].response = <<OK>>]
                    ELSE [shutdowns EXCEPT ![s].fin = "done"]
    /\ UNCHANGED <<descriptors, info, proxy_json, srv_lock, srv_calls, srv_log, srv_time,
                   hooks, rpc_server, transport, waits>>

\* the transport accepts a call of a manager's method, which begins (the method
\* of the tests sleeps 3 s); a stopped transport accepts none
MethodRun(request) ==
    /\ Len(srv_calls) < MaxLifeCalls
    /\ transport.stops = 0
    /\ srv_calls' = Append(srv_calls, [request EXCEPT !.pc = "run", !.logged = TRUE,
                                                      !.first_try = srv_time])
    /\ UNCHANGED <<descriptors, info, proxy_json, srv_lock, srv_log, srv_time,
                   hooks, rpc_server, is_running, transport, shutdowns, waits>>

\* the method returns and its response goes to the caller
MethodReturn(c) ==
    /\ srv_calls[c].pc = "run"
    /\ srv_calls' = [srv_calls EXCEPT ![c].pc = "done", ![c].logged = FALSE,
                        ![c].ended = srv_time,
                        ![c].response = <<ManagerResponse(srv_calls[c])>>]
    /\ UNCHANGED <<descriptors, info, proxy_json, srv_lock, srv_log, srv_time,
                   hooks, rpc_server, is_running, transport, shutdowns, waits>>

\* the grace of stop() is over: the transport aborts the requests it still
\* serves, whose callers get no response
GraceExpire ==
    /\ transport.stop_time # None
    /\ srv_time >= transport.stop_time[1] + SHUTDOWN_GRACE
    /\ Serving # {}
    /\ srv_calls' = [c \in DOMAIN srv_calls |->
                        IF srv_calls[c].pc = "run"
                        THEN [srv_calls[c] EXCEPT !.pc = "aborted", !.ended = srv_time]
                        ELSE srv_calls[c]]
    /\ transport' = [transport EXCEPT !.aborted = @ \cup ShutdownHandlers]
    /\ UNCHANGED <<descriptors, info, proxy_json, srv_lock, srv_log, srv_time,
                   hooks, rpc_server, is_running, shutdowns, waits>>

\* wait_shutdown() is called
WaitShutdown ==
    /\ Len(waits) < MaxWaits
    /\ waits' = Append(waits, "wait")
    /\ UNCHANGED <<descriptors, info, proxy_json, srv_lock, srv_calls, srv_log, srv_time,
                   hooks, rpc_server, is_running, transport, shutdowns>>

\* wait_shutdown() returns: the shutdown-complete event that is_running reflects
\* is set
WaitReturn(w) ==
    /\ waits[w] = "wait"
    /\ ~is_running
    /\ waits' = [waits EXCEPT ![w] = "returned"]
    /\ UNCHANGED <<descriptors, info, proxy_json, srv_lock, srv_calls, srv_log, srv_time,
                   hooks, rpc_server, is_running, transport, shutdowns>>

\* a sleep of a finalization or the grace of the transport is not over
Pending ==
    \/ \E s \in DOMAIN shutdowns : shutdowns[s].fin = "sleep" /\ srv_time < shutdowns[s].until
    \/ /\ transport.stop_time # None /\ Serving # {}
       /\ srv_time < transport.stop_time[1] + SHUTDOWN_GRACE

\* time passes on the server's host while no statement of shutdown is running;
\* the clock stops at MaxSrvTime once no timer is pending
LifeTick ==
    /\ srv_time < MaxSrvTime \/ Pending
    /\ ~Computing
    /\ srv_time' = srv_time + 1
    /\ UNCHANGED <<descriptors, info, proxy_json, srv_lock, srv_calls, srv_log,
                   hooks, rpc_server, is_running, transport, shutdowns, waits>>

\* ------------------------------------------------ the proxied config servers
\* the proxied servers whose config the proxy merges with its own
\* (ConfigManager.__proxied_config_clients)
PeerIds == {1, 2}

\* the user items of a proxied server: one shared with the proxy, one the proxy
\* does not have
PeerItems == {"my-int-config", "peer-item"}

\* the values a set on a proxied server gives to its items
PeerValues == [PeerItems -> {"12", "1024"}]

\* no get served yet
NoGet == [names |-> {}, ignore_unknown |-> FALSE, dumps |-> <<>>, rc |-> "none",
          ret |-> EmptyDict]

\* the proxied servers start on the defaults; no get was served
InitPeers ==
    /\ peers = [p \in PeerIds |-> [name \in PeerItems |-> "12"]]
    /\ proxy_get = NoGet

\* the state outside the events and config managers: the peers on their defaults,
\* a client with the default arguments of RpcClient
InitExtra ==
    /\ InitPeers /\ InitClient(<<DefaultTimeout>>, TRUE)
    /\ InitServer(<<>>, EmptyDict)

\* the dump of a proxied server: client.config.get(Filter(names, ignore_unknown=True)).items
PeerDump(p, names) ==
    LET found == IF names = {} THEN PeerItems ELSE names \cap PeerItems
    IN  [name \in found |-> peers[p][name]]

\* items_dumps of __merged_items: the local items first, then one dump per proxied client
ItemsDumps(names) ==
    <<MergedItems(names)>> \o [p \in 1..Cardinality(PeerIds) |-> PeerDump(p, names)]

\* the dump that merges name: the first one holding it
FirstDump(dumps, name) ==
    CHOOSE k \in DOMAIN dumps :
        /\ name \in DOMAIN dumps[k]
        /\ \A j \in DOMAIN dumps : name \in DOMAIN dumps[j] => k <= j

\* __merged_items raises ERROR_ITEM_CONFLICT: an item of a dump is already merged
\* with another value
HasConflict(dumps) ==
    \E k \in DOMAIN dumps : \E name \in DOMAIN dumps[k] :
        dumps[k][name] # dumps[FirstDump(dumps, name)][name]

\* merged_items of __merged_items: every item with the value of its first dump
Merge(dumps) ==
    LET merged == UNION {DOMAIN dumps[k] : k \in DOMAIN dumps}
    IN  [name \in merged |-> dumps[FirstDump(dumps, name)][name]]

\* the Filter requests of get on the proxy
ProxyNames == {{}, {"my-int-config"}, {"peer-item"}, {"my-int-config", "unknown-item"}}

\* a client sets the items of a proxied server directly
PeerSet(p, values) ==
    /\ peers' = [peers EXCEPT ![p] = values]
    /\ UNCHANGED proxy_get

\* ConfigManager.get on the proxy: merge with conflicts checked, check the
\* names, return the merged items
ProxyGet(names, ignore_unknown) ==
    /\ cfg_lock = 0
    /\ LET dumps == ItemsDumps(names)
           rc == IF HasConflict(dumps) THEN "ERROR_ITEM_CONFLICT"
                 ELSE CheckItems(names, DOMAIN Merge(dumps), ignore_unknown, TRUE)
       IN  proxy_get' = [names |-> names, ignore_unknown |-> ignore_unknown,
                         dumps |-> dumps, rc |-> rc,
                         ret |-> IF rc = "OK" THEN Merge(dumps) ELSE EmptyDict]
    /\ UNCHANGED peers

\* ------------------------------------------------- the config specification
\* any client calls, concurrently, on a manager started on any of the layers
InitCfg == InitEvents /\ step = 0 /\ InitConfig /\ InitExtra

NextConfig ==
    \/ \E request \in CfgRequests : CfgCall(request) /\ UNCHANGED <<evars, step, xvars>>
    \/ \E c \in DOMAIN calls : GetCheck(c) /\ UNCHANGED <<evars, step, xvars>>
    \/ \E c \in DOMAIN calls : GetReturn(c) /\ UNCHANGED <<evars, step, xvars>>
    \/ \E c \in DOMAIN calls : SetCheck(c) /\ UNCHANGED <<evars, step, xvars>>
    \/ \E c \in DOMAIN calls : SetUpdate(c) /\ UNCHANGED <<evars, step, xvars>>
    \/ \E c \in DOMAIN calls : SetPersist(c) /\ UNCHANGED <<evars, step, xvars>>
    \/ \E c \in DOMAIN calls : SetReturn(c) /\ UNCHANGED <<evars, step, xvars>>
    \/ \E c \in DOMAIN calls : ResetCheck(c) /\ UNCHANGED <<evars, step, xvars>>
    \/ \E c \in DOMAIN calls : ResetItems(c) /\ UNCHANGED <<evars, step, xvars>>
    \/ \E c \in DOMAIN calls : ResetReturn(c) /\ UNCHANGED <<evars, step, xvars>>

SpecConfig == InitCfg /\ [][NextConfig]_vars

\* ------------------------------------------------------ the refused updates
\* the set requests of the tests (a bad value, an empty value) and others that
\* name an unknown item or have an empty name, each with a valid item beside
\* the refused one; a valid request, and one whose unknown name is ignored
SetRequests ==
    { Request("get", {}, EmptyDict, FALSE),
      Request("set", {"my-int-config"}, "my-int-config" :> "999", FALSE),
      Request("set", {"my-int-config", "my-str-config"},
              ("my-int-config" :> "foo") @@ ("my-str-config" :> "bar"), FALSE),
      Request("set", {"my-int-config", "my-str-config"},
              ("my-int-config" :> "") @@ ("my-str-config" :> "bar"), FALSE),
      Request("set", {"my-int-config", "unknown-item"},
              ("my-int-config" :> "3") @@ ("unknown-item" :> "x"), FALSE),
      Request("set", {"my-int-config", "unknown-item"},
              ("my-int-config" :> "5") @@ ("unknown-item" :> "x"), TRUE),
      Request("set", {"my-str-config", ""},
              ("my-str-config" :> "foo") @@ ("" :> "x"), TRUE),
      Request("set", {}, EmptyDict, FALSE) }

NextSet ==
    \/ \E request \in SetRequests : CfgCall(request) /\ UNCHANGED <<evars, step, xvars>>
    \/ \E c \in DOMAIN calls : GetCheck(c) /\ UNCHANGED <<evars, step, xvars>>
    \/ \E c \in DOMAIN calls : GetReturn(c) /\ UNCHANGED <<evars, step, xvars>>
    \/ \E c \in DOMAIN calls : SetCheck(c) /\ UNCHANGED <<evars, step, xvars>>
    \/ \E c \in DOMAIN calls : SetUpdate(c) /\ UNCHANGED <<evars, step, xvars>>
    \/ \E c \in DOMAIN calls : SetPersist(c) /\ UNCHANGED <<evars, step, xvars>>
    \/ \E c \in DOMAIN calls : SetReturn(c) /\ UNCHANGED <<evars, step, xvars>>

SpecSet == InitCfg /\ [][NextSet]_vars

\* faulty variant of Restart: the persisted values are loaded for user items only
RestartUserItemsOnly ==
    /\ calls # <<>>
    /\ \A c \in DOMAIN calls : calls[c].pc = "done"
    /\ LET defaults == LoadDefaults(system_config, user_config, environ, cli_config)
       IN  /\ default_value' = [name \in Items |-> defaults[name]]
           /\ value' = [name \in Items |->
                           IF name \in UserItems \cap DOMAIN config_json
                              /\ Validate(name, config_json[name]) = "OK"
                           THEN config_json[name] ELSE defaults[name]]
    /\ cfg_lock' = 0
    /\ UNCHANGED <<system_config, user_config, environ, cli_config, config_json, calls, log>>

\* ------------------------------------------ the proxy's get over its peers
NextProxy ==
    \/ \E p \in PeerIds, values \in PeerValues :
           PeerSet(p, values) /\ UNCHANGED <<evars, step, cvars, rvars, svars, lvars, listener>>
    \/ \E names \in ProxyNames, ignore_unknown \in BOOLEAN :
           ProxyGet(names, ignore_unknown) /\ UNCHANGED <<evars, step, cvars, rvars, svars, lvars, listener>>

SpecProxy == InitCfg /\ [][NextProxy]_vars

\* ------------------------------------------------- the client specification
\* a client built with any timeout and any "exception" flag
InitRpc ==
    /\ InitEvents /\ step = 0 /\ InitConfigBare /\ InitPeers /\ InitServer(<<>>, EmptyDict)
    /\ \E timeout \in Timeouts, exception \in BOOLEAN : InitClient(timeout, exception)

\* the call goes on: the stub answers or fails, the server streams, the wrapper
\* iterates, handles the RpcError or wakes up
NextCall == CallStep /\ UNCHANGED <<evars, step, cvars, pvars, svars, lvars, listener>>

NextClient ==
    \/ \E method \in {"simple", "stream"}, k \in 0..MaxElements, c \in ResultCodes :
           Prelude(method, k, c) /\ UNCHANGED <<evars, step, cvars, pvars, svars, lvars, listener>>
    \/ NextCall

\* the threads of the client and of the server keep running: the stub call
\* returns or raises, sleep returns, the caller iterates the stream to its end
SpecClient == InitRpc /\ [][NextClient]_vars /\ WF_vars(NextCall)

\* ---------------------------------------------- the proxy registrations
\* the services given to RpcServer besides its own: "sample" served by a
\* manager or proxied, with or without a second service
UserDescriptors ==
    { <<Descriptor("sample", {1, 2}, TRUE)>>,
      <<Descriptor("sample", {1, 2}, FALSE)>>,
      <<Descriptor("local", {2}, FALSE), Descriptor("sample", {1, 2}, TRUE)>>,
      <<Descriptor("sample", {1, 2}, TRUE), Descriptor("local", {2}, FALSE)>> }

\* the proxy.json the workspace holds when the server starts: none, or the one
\* a former server wrote on registering "sample"
ProxyFiles ==
    { EmptyDict, "sample" :> [host |-> "localhost", port |-> 1, version |-> "123"] }

\* the requests to the srv service
RegistryRequests ==
    { ProxyRegisterRequest(<<"sample">>, "123", "localhost", 1),
      ProxyRegisterRequest(<<"sample">>, "456", "", 2),
      ProxyRegisterRequest(<<"sample">>, "", "", 1),
      ProxyRegisterRequest(<<"sample">>, "1", "", 0),
      ProxyRegisterRequest(<<"sample", "srv">>, "123", "", 1),
      ProxyRegisterRequest(<<"sample", "foo">>, "123", "", 1),
      ProxyRegisterRequest(<<"srv", "foo">>, "", "", 0),
      ProxyRegisterRequest(<<>>, "123", "", 1),
      ProxyRegisterRequest(<<"", "foo">>, "123", "", 1),
      FilterRequest("proxy_forget", <<"sample">>),
      FilterRequest("proxy_forget", <<"sample", "local">>),
      FilterRequest("proxy_forget", <<>>),
      FilterRequest("info", <<"sample">>),
      FilterRequest("info", <<>>),
      FilterRequest("info", <<"foo">>) }

InitRegistry ==
    /\ InitEvents /\ step = 0 /\ InitConfigBare /\ InitPeers
    /\ InitClient(<<DefaultTimeout>>, TRUE)
    /\ \E user \in UserDescriptors, file \in ProxyFiles : InitServer(user, file)

NextRegistry ==
    \/ \E request \in RegistryRequests :
           SrvCall(request) /\ UNCHANGED <<evars, step, cvars, pvars, rvars, lvars, listener>>
    \/ \E c \in DOMAIN srv_calls : ProxyCheck(c) /\ UNCHANGED <<evars, step, cvars, pvars, rvars, lvars, listener>>
    \/ \E c \in DOMAIN srv_calls : ProxyLock(c) /\ UNCHANGED <<evars, step, cvars, pvars, rvars, lvars, listener>>
    \/ \E c \in DOMAIN srv_calls : ProxyUpdate(c) /\ UNCHANGED <<evars, step, cvars, pvars, rvars, lvars, listener>>
    \/ \E c \in DOMAIN srv_calls : ProxyPersist(c) /\ UNCHANGED <<evars, step, cvars, pvars, rvars, lvars, listener>>
    \/ \E c \in DOMAIN srv_calls : Info(c) /\ UNCHANGED <<evars, step, cvars, pvars, rvars, lvars, listener>>
    \/ Shutdown /\ UNCHANGED <<evars, step, cvars, pvars, rvars, lvars, listener>>
    \/ RestartServer /\ UNCHANGED <<evars, step, cvars, pvars, rvars, lvars, listener>>

SpecRegistry == InitRegistry /\ [][NextRegistry]_vars

\* --------------------------------------------------- the calls dispatched
\* the calls of the tests to the sample service (method4 that answers a
\* SampleResponse, method2 that raises rc 12, a method that raises another
\* exception; without api_version, with one the server accepts, with one too new
\* and one too old), with the registration of the proxy and its removal
DispatchRequests ==
    { MethodCall("sample", None, "SampleResponse", "none", OK),
      MethodCall("sample", <<1>>, "ResultStatus", "RpcException", SAMPLE_ERROR),
      MethodCall("sample", <<3>>, "SampleResponse", "none", OK),
      MethodCall("sample", <<0>>, "ResultStatus", "none", OK),
      MethodCall("sample", <<2>>, "SampleResponse", "Exception", OK),
      ProxyRegisterRequest(<<"sample">>, "123", "localhost", 1),
      FilterRequest("proxy_forget", <<"sample">>) }

InitDispatch ==
    /\ InitEvents /\ step = 0 /\ InitConfigBare /\ InitPeers
    /\ InitClient(<<DefaultTimeout>>, TRUE)
    /\ \E is_proxy \in BOOLEAN, file \in ProxyFiles :
           InitServer(<<Descriptor("sample", {1, 2}, is_proxy)>>, file)

NextDispatch ==
    \/ \E request \in DispatchRequests :
           /\ SrvCall(request)
           /\ UNCHANGED <<evars, step, cvars, pvars, rvars, lvars, listener>>
    \/ \E c \in DOMAIN srv_calls : ProxyCheck(c) /\ UNCHANGED <<evars, step, cvars, pvars, rvars, lvars, listener>>
    \/ \E c \in DOMAIN srv_calls : ProxyLock(c) /\ UNCHANGED <<evars, step, cvars, pvars, rvars, lvars, listener>>
    \/ \E c \in DOMAIN srv_calls : ProxyUpdate(c) /\ UNCHANGED <<evars, step, cvars, pvars, rvars, lvars, listener>>
    \/ \E c \in DOMAIN srv_calls : ProxyPersist(c) /\ UNCHANGED <<evars, step, cvars, pvars, rvars, lvars, listener>>
    \/ \E c \in DOMAIN srv_calls : DispatchCheck(c) /\ UNCHANGED <<evars, step, cvars, pvars, rvars, lvars, listener>>
    \/ \E c \in DOMAIN srv_calls : DispatchPoll(c) /\ UNCHANGED <<evars, step, cvars, pvars, rvars, lvars, listener>>
    \/ \E c \in DOMAIN srv_calls : DispatchWake(c) /\ UNCHANGED <<evars, step, cvars, pvars, rvars, lvars, listener>>
    \/ \E c \in DOMAIN srv_calls : DispatchForward(c) /\ UNCHANGED <<evars, step, cvars, pvars, rvars, lvars, listener>>
    \/ SrvTick /\ UNCHANGED <<evars, step, cvars, pvars, rvars, lvars, listener>>

SpecDispatch == InitDispatch /\ [][NextDispatch]_vars

\* ------------------------------------------------------ the calls in flight
\* unary calls that wait for the proxy, and streaming calls that end, raise or
\* are refused for their version
InFlightRequests ==
    { MethodCall("sample", None, "SampleResponse", "none", OK),
      MethodCall("sample", <<3>>, "SampleResponse", "none", OK),
      StreamCall("sample", None, "none", OK),
      StreamCall("sample", <<1>>, "RpcException", ERROR_CUSTOM),
      StreamCall("sample", <<3>>, "none", OK) }

\* the streaming methods are those of a service served by a manager
NextInFlight ==
    \/ \E request \in InFlightRequests :
           /\ request.op = "stream" => ~info[request.service].is_proxy
           /\ SrvCall(request)
           /\ UNCHANGED <<evars, step, cvars, pvars, rvars, lvars, listener>>
    \/ \E c \in DOMAIN srv_calls : DispatchCheck(c) /\ UNCHANGED <<evars, step, cvars, pvars, rvars, lvars, listener>>
    \/ \E c \in DOMAIN srv_calls : DispatchPoll(c) /\ UNCHANGED <<evars, step, cvars, pvars, rvars, lvars, listener>>
    \/ \E c \in DOMAIN srv_calls : DispatchWake(c) /\ UNCHANGED <<evars, step, cvars, pvars, rvars, lvars, listener>>
    \/ \E c \in DOMAIN srv_calls : DispatchForward(c) /\ UNCHANGED <<evars, step, cvars, pvars, rvars, lvars, listener>>
    \/ \E c \in DOMAIN srv_calls : StreamStart(c) /\ UNCHANGED <<evars, step, cvars, pvars, rvars, lvars, listener>>
    \/ \E c \in DOMAIN srv_calls : StreamYield(c) /\ UNCHANGED <<evars, step, cvars, pvars, rvars, lvars, listener>>
    \/ \E c \in DOMAIN srv_calls : StreamFinish(c) /\ UNCHANGED <<evars, step, cvars, pvars, rvars, lvars, listener>>
    \/ \E c \in DOMAIN srv_calls : StreamEpilog(c) /\ UNCHANGED <<evars, step, cvars, pvars, rvars, lvars, listener>>
    \/ \E c \in DOMAIN srv_calls : StreamAbandon(c) /\ UNCHANGED <<evars, step, cvars, pvars, rvars, lvars, listener>>
    \/ SrvTick /\ UNCHANGED <<evars, step, cvars, pvars, rvars, lvars, listener>>

SpecInFlight == InitDispatch /\ [][NextInFlight]_vars

\* ------------------------------------------------------ the server shut down
\* a server that serves a user manager, or the EventsManager
InitLife ==
    /\ InitEvents /\ step = 0 /\ InitConfigBare /\ InitPeers
    /\ InitClient(<<DefaultTimeout>>, TRUE)
    /\ \E name \in {"sample", "events"} :
           InitServer(<<Descriptor(name, {1}, FALSE)>>, EmptyDict)

LifeOnly == UNCHANGED <<evars, step, cvars, pvars, rvars, listener>>

EventsOnly ==
    UNCHANGED <<step, cvars, pvars, rvars, descriptors, info, proxy_json, srv_lock,
                srv_calls, srv_log, srv_time, hooks, lvars, listener>>

NextLife ==
    \/ \E request \in ShutdownRequests : ShutdownCall(request) /\ LifeOnly
    \/ \E s \in DOMAIN shutdowns : ShutdownCheck(s) /\ LifeOnly
    \/ \E s \in DOMAIN shutdowns : ShutdownRead(s) /\ LifeOnly
    \/ \E s \in DOMAIN shutdowns : ShutdownClear(s) /\ LifeOnly
    \/ \E s \in DOMAIN shutdowns : ShutdownStop(s) /\ LifeOnly
    \/ \E s \in DOMAIN shutdowns : ShutdownHook(s) /\ LifeOnly
    \/ \E s \in DOMAIN shutdowns :
           ShutdownHookEvents(s) /\ UNCHANGED <<step, cvars, pvars, rvars, listener>>
    \/ \E s \in DOMAIN shutdowns :
           ShutdownHookJoined(s) /\ UNCHANGED <<step, cvars, pvars, rvars, listener>>
    \/ \E s \in DOMAIN shutdowns :
           ShutdownHookAgain(s) /\ UNCHANGED <<step, cvars, pvars, rvars, listener>>
    \/ \E s \in DOMAIN shutdowns : ShutdownSpawn(s) /\ LifeOnly
    \/ \E s \in DOMAIN shutdowns : FinalizeWait(s) /\ LifeOnly
    \/ \E s \in DOMAIN shutdowns : FinalizeWake(s) /\ LifeOnly
    \/ \E s \in DOMAIN shutdowns : FinalizeEnd(s) /\ LifeOnly
    \/ MethodRun(MethodCall("sample", None, "SampleResponse", "none", OK)) /\ LifeOnly
    \/ \E c \in DOMAIN srv_calls : MethodReturn(c) /\ LifeOnly
    \/ GraceExpire /\ LifeOnly
    \/ WaitShutdown /\ LifeOnly
    \/ \E w \in DOMAIN waits : WaitReturn(w) /\ LifeOnly
    \/ LifeTick /\ LifeOnly
    \/ (descriptors[Len(descriptors)].name = "events" /\ KeepAliveCheck) /\ EventsOnly
    \/ (descriptors[Len(descriptors)].name = "events" /\ KeepAliveSend) /\ EventsOnly
    \/ (descriptors[Len(descriptors)].name = "events" /\ KeepAliveWake) /\ EventsOnly

SpecLife == InitLife /\ [][NextLife]_vars

\* the steps of the threads of the server: every one but the arrival of a call
LifeProgress ==
    \/ \E s \in DOMAIN shutdowns : ShutdownCheck(s) /\ LifeOnly
    \/ \E s \in DOMAIN shutdowns : ShutdownRead(s) /\ LifeOnly
    \/ \E s \in DOMAIN shutdowns : ShutdownClear(s) /\ LifeOnly
    \/ \E s \in DOMAIN shutdowns : ShutdownStop(s) /\ LifeOnly
    \/ \E s \in DOMAIN shutdowns : ShutdownHook(s) /\ LifeOnly
    \/ \E s \in DOMAIN shutdowns :
           ShutdownHookEvents(s) /\ UNCHANGED <<step, cvars, pvars, rvars, listener>>
    \/ \E s \in DOMAIN shutdowns :
           ShutdownHookJoined(s) /\ UNCHANGED <<step, cvars, pvars, rvars, listener>>
    \/ \E s \in DOMAIN shutdowns :
           ShutdownHookAgain(s) /\ UNCHANGED <<step, cvars, pvars, rvars, listener>>
    \/ \E s \in DOMAIN shutdowns : ShutdownSpawn(s) /\ LifeOnly
    \/ \E s \in DOMAIN shutdowns : FinalizeWait(s) /\ LifeOnly
    \/ \E s \in DOMAIN shutdowns : FinalizeWake(s) /\ LifeOnly
    \/ \E s \in DOMAIN shutdowns : FinalizeEnd(s) /\ LifeOnly
    \/ \E c \in DOMAIN srv_calls : MethodReturn(c) /\ LifeOnly
    \/ GraceExpire /\ LifeOnly
    \/ \E w \in DOMAIN waits : WaitReturn(w) /\ LifeOnly
    \/ LifeTick /\ LifeOnly
    \/ (descriptors[Len(descriptors)].name = "events" /\ KeepAliveCheck) /\ EventsOnly
    \/ (descriptors[Len(descriptors)].name = "events" /\ KeepAliveSend) /\ EventsOnly
    \/ (descriptors[Len(descriptors)].name = "events" /\ KeepAliveWake) /\ EventsOnly

\* every thread that can take a step goes on: no step of the threads can be
\* taken twice from the same state, so a behaviour only stops where none can move
SpecLifeFair == SpecLife /\ WF_vars(LifeProgress)

\* ------------------------------------------- the config server restarted
\* the server is stopped once its calls have returned and a fresh one is started
\* on the same workspace, declarations and layers: ConfigManager.__init__ again,
\* with the workspace/config.json the previous server left
Restart ==
    /\ calls # <<>>
    /\ \A c \in DOMAIN calls : calls[c].pc = "done"
    /\ LET defaults == LoadDefaults(system_config, user_config, environ, cli_config)
       IN  /\ default_value' = [name \in Items |-> defaults[name]]
           /\ value' = [name \in Items |->
                           IF name \in DOMAIN config_json
                              /\ Validate(name, config_json[name]) = "OK"
                           THEN config_json[name] ELSE defaults[name]]
    /\ cfg_lock' = 0
    /\ UNCHANGED <<system_config, user_config, environ, cli_config, config_json, calls, log>>

NextRestart ==
    \/ NextConfig
    \/ Restart /\ UNCHANGED <<evars, step, xvars>>

SpecRestart == InitCfg /\ [][NextRestart]_vars

\* -------------------------------------------- static items and the workspace
\* a server whose calls and persisted file name the framework static item too:
\* the file may have been written by hand, as TestLogs.test_rolling_logs does
StaticWorkspaceConfigs ==
    {EmptyDict, "my-int-config" :> "777", "rpc-max-workers" :> "5",
     ("my-int-config" :> "invalid string") @@ ("rpc-max-workers" :> "5"),
     ("my-int-config" :> "777") @@ ("rpc-max-workers" :> "0")}

StaticRequests ==
    { Request("get", {}, EmptyDict, FALSE),
      Request("get", {"rpc-max-workers"}, EmptyDict, FALSE),
      Request("get", {"my-int-config", "rpc-max-workers"}, EmptyDict, TRUE),
      Request("set", {"my-int-config"}, "my-int-config" :> "999", FALSE),
      Request("set", {"rpc-max-workers"}, "rpc-max-workers" :> "5", FALSE),
      Request("set", {"my-int-config", "rpc-max-workers"},
              ("my-int-config" :> "3") @@ ("rpc-max-workers" :> "5"), TRUE),
      Request("reset", {"my-int-config"}, EmptyDict, FALSE),
      Request("reset", {"rpc-max-workers"}, EmptyDict, FALSE),
      Request("reset", {"my-int-config", "rpc-max-workers"}, EmptyDict, TRUE) }

InitStatic ==
    /\ InitEvents /\ step = 0 /\ InitExtra
    /\ \E env \in Environs, currents \in StaticWorkspaceConfigs :
          Construct(EmptyDict, EmptyDict, env, EmptyDict, currents)

NextStatic ==
    \/ \E request \in StaticRequests : CfgCall(request) /\ UNCHANGED <<evars, step, xvars>>
    \/ \E c \in DOMAIN calls : GetCheck(c) /\ UNCHANGED <<evars, step, xvars>>
    \/ \E c \in DOMAIN calls : GetReturn(c) /\ UNCHANGED <<evars, step, xvars>>
    \/ \E c \in DOMAIN calls : SetCheck(c) /\ UNCHANGED <<evars, step, xvars>>
    \/ \E c \in DOMAIN calls : SetUpdate(c) /\ UNCHANGED <<evars, step, xvars>>
    \/ \E c \in DOMAIN calls : SetPersist(c) /\ UNCHANGED <<evars, step, xvars>>
    \/ \E c \in DOMAIN calls : SetReturn(c) /\ UNCHANGED <<evars, step, xvars>>
    \/ \E c \in DOMAIN calls : ResetCheck(c) /\ UNCHANGED <<evars, step, xvars>>
    \/ \E c \in DOMAIN calls : ResetItems(c) /\ UNCHANGED <<evars, step, xvars>>
    \/ \E c \in DOMAIN calls : ResetReturn(c) /\ UNCHANGED <<evars, step, xvars>>
    \/ Restart /\ UNCHANGED <<evars, step, xvars>>

SpecStatic == InitStatic /\ [][NextStatic]_vars

\* ------------------------------------------------- the events specification
\* every client call with every argument, at any time: the ids are those ever
\* allocated, 0 (a new subscriber) and one id never allocated
ClientIds == 0..(Len(qobj) + 1)

Init == InitEvents /\ step = 0 /\ InitConfigBare /\ InitExtra

Next ==
    \/ \E client_id \in ClientIds, names \in Filters : Listen(client_id, names) /\ UNCHANGED <<step, cvars, xvars>>
    \/ \E s \in DOMAIN streams : ListenGet(s) /\ UNCHANGED <<step, cvars, xvars>>
    \/ \E s \in DOMAIN streams : ListenEnd(s) /\ UNCHANGED <<step, cvars, xvars>>
    \/ \E client_id \in ClientIds : InterruptStart(client_id) /\ UNCHANGED <<step, cvars, xvars>>
    \/ \E i \in DOMAIN interrupts : InterruptCheck(i) /\ UNCHANGED <<step, cvars, xvars>>
    \/ \E i \in DOMAIN interrupts : InterruptPut(i) /\ UNCHANGED <<step, cvars, xvars>>
    \/ \E name \in EventNames : Send(name) /\ UNCHANGED <<step, cvars, xvars>>
    \/ KeepAliveCheck /\ UNCHANGED <<step, cvars, xvars>>
    \/ KeepAliveSend /\ UNCHANGED <<step, cvars, xvars>>
    \/ KeepAliveWake /\ UNCHANGED <<step, cvars, xvars>>
    \/ ShutdownBegin /\ UNCHANGED <<step, cvars, xvars>>
    \/ ShutdownEnd /\ UNCHANGED <<step, cvars, xvars>>
    \/ Tick /\ UNCHANGED <<step, cvars, xvars>>

Spec == Init /\ [][Next]_vars

\* the events service with subscribers whose transport may close
NextAbandon ==
    \/ Next
    \/ \E s \in DOMAIN streams : ListenAbandon(s) /\ UNCHANGED <<step, cvars, xvars>>

SpecAbandon == Init /\ [][NextAbandon]_vars

\* the events service shut down and started again on its workspace
NextEventsRestart ==
    \/ Next
    \/ RestartEvents /\ UNCHANGED <<step, cvars, xvars>>

SpecEventsRestart == Init /\ [][NextEventsRestart]_vars

\* the events service and one EventsListener, built with no id or with a
\* persisted one; the events it gets are the keep-alive ones
ListenerOnly == UNCHANGED <<step, cvars, peers, proxy_get, client, client_time, server, svars, lvars>>

NextListener ==
    \/ \E client_id \in {None, <<1>>} : ListenerStart(client_id) /\ ListenerOnly
    \/ ListenerListen /\ ListenerOnly
    \/ ListenerRefused /\ ListenerOnly
    \/ ListenerNext /\ ListenerOnly
    \/ ListenerFail /\ ListenerOnly
    \/ ListenerWake /\ ListenerOnly
    \/ ListenerInterrupt /\ ListenerOnly
    \/ \E s \in DOMAIN streams : ListenGet(s) /\ UNCHANGED <<step, cvars, xvars>>
    \/ \E s \in DOMAIN streams : ListenEnd(s) /\ UNCHANGED <<step, cvars, xvars>>
    \/ \E i \in DOMAIN interrupts : InterruptCheck(i) /\ UNCHANGED <<step, cvars, xvars>>
    \/ \E i \in DOMAIN interrupts : InterruptPut(i) /\ UNCHANGED <<step, cvars, xvars>>
    \/ KeepAliveCheck /\ UNCHANGED <<step, cvars, xvars>>
    \/ KeepAliveSend /\ UNCHANGED <<step, cvars, xvars>>
    \/ KeepAliveWake /\ UNCHANGED <<step, cvars, xvars>>
    \/ ShutdownBegin /\ UNCHANGED <<step, cvars, xvars>>
    \/ ShutdownEnd /\ UNCHANGED <<step, cvars, xvars>>
    \/ RestartEvents /\ UNCHANGED <<step, cvars, xvars>>
    \/ Tick /\ UNCHANGED <<step, cvars, xvars>>

SpecListener == Init /\ [][NextListener]_vars

\* --------------------------------------------- the interrupt/resume scenario
\* the client of TestEvents.test_resume: listen, send, interrupt and join the
\* listening thread, send while interrupted, resume with the same client_id,
\* send, interrupt. The server's own steps, the keep-alive thread and the clock
\* run freely between the client's calls; the send made while interrupted and
\* the resume happen before the retain timeout has elapsed
LastStep == 8

InRetainWindow(index) ==
    /\ index \in DOMAIN queues
    /\ index \in DOMAIN interrupt_times
    /\ interrupt_times[index] # None
    /\ now - interrupt_times[index][1] < EVENT_RETAIN_TIMEOUT

\* the subscriber sends events its own filter lets through
Listened(name) == streams[1].names = {} \/ name \in streams[1].names

ClientStep ==
    \/ /\ step = 1
       /\ \E names \in Filters : Listen(0, names)
       /\ step' = 2
    \/ /\ step \in {2, 6}
       /\ \E name \in EventNames : Listened(name) /\ Send(name)
       /\ step' = step + 1
    \/ /\ step \in {3, 7}
       /\ InterruptStart(streams[1].index)
       /\ step' = step + 1
    \/ /\ step = 4
       /\ interrupts[1].pc = "done" /\ streams[1].pc = "done"
       /\ InRetainWindow(streams[1].index)
       /\ \E name \in EventNames : Listened(name) /\ Send(name)
       /\ step' = 5
    \/ /\ step = 5
       /\ InRetainWindow(streams[1].index)
       /\ Listen(streams[1].index, streams[1].names)
       /\ step' = 6

InitResume == InitEvents /\ step = 1 /\ InitConfigBare /\ InitExtra

NextResume ==
    \/ ClientStep /\ UNCHANGED <<cvars, xvars>>
    \/ \E s \in DOMAIN streams : ListenGet(s) /\ UNCHANGED <<step, cvars, xvars>>
    \/ \E s \in DOMAIN streams : ListenEnd(s) /\ UNCHANGED <<step, cvars, xvars>>
    \/ \E i \in DOMAIN interrupts : InterruptCheck(i) /\ UNCHANGED <<step, cvars, xvars>>
    \/ \E i \in DOMAIN interrupts : InterruptPut(i) /\ UNCHANGED <<step, cvars, xvars>>
    \/ KeepAliveCheck /\ UNCHANGED <<step, cvars, xvars>>
    \/ KeepAliveSend /\ UNCHANGED <<step, cvars, xvars>>
    \/ KeepAliveWake /\ UNCHANGED <<step, cvars, xvars>>
    \/ Tick /\ UNCHANGED <<step, cvars, xvars>>

SpecResume == InitResume /\ [][NextResume]_vars

\* ------------------------------------------------------------ observations
\* the sequence numbers of the named events in a stream's output
RECURSIVE SeqsOf(_)
SeqsOf(out) ==
    IF out = <<>> THEN <<>>
    ELSE IF Head(out).kind = "event" /\ Head(out).name # ""
         THEN <<Head(out).seq>> \o SeqsOf(Tail(out))
         ELSE SeqsOf(Tail(out))

IsPrefix(a, b) == Len(a) <= Len(b) /\ \A k \in 1..Len(a) : a[k] = b[k]

\* the events (by number, in sending order) sent while stream s was active that
\* its names filter lets through
DueTo(s) ==
    SelectSeq([k \in 1..Len(sends) |-> k],
              LAMBDA k : /\ s \in sends[k].active
                         /\ (streams[s].names = {} \/ sends[k].name \in streams[s].names))

\* C1: every event sent while a subscriber's stream is active is yielded on that
\* stream iff its names filter is empty or holds the event's name, in sending
\* order: what the stream yielded of them is a prefix of the filtered sends, and
\* all of them once its read loop has ended
C1_ActiveDelivery ==
    \A s \in DOMAIN streams :
        LET got == SelectSeq(SeqsOf(streams[s].out), LAMBDA k : s \in sends[k].active)
        IN  /\ IsPrefix(got, DueTo(s))
            /\ streams[s].pc \in {"ended", "done"} /\ streams[s].rc # "ERROR_ITEM_UNKNOWN"
                  => got = DueTo(s)

\* a step of listen with client_id = 0: it adds a stream with cid 0
NewSubscriber == Len(streams') = Len(streams) + 1 /\ streams'[Len(streams')].cid = 0

\* C3: listen with client_id = 0 allocates the smallest positive integer that is
\* no id of the registry, registers a new queue under it and changes no other
\* entry; no two ids of the registry ever name the same queue
C3_SmallestUnusedId ==
    [][/\ NewSubscriber =>
            LET index == streams'[Len(streams')].index
            IN  /\ index >= 1
                /\ index \notin DOMAIN queues
                /\ \A j \in 1..(index - 1) : j \in DOMAIN queues
                /\ DOMAIN queues' = DOMAIN queues \cup {index}
                /\ queues'[index] = streams'[Len(streams')].q
                /\ queues'[index] \notin {queues[j] : j \in DOMAIN queues}
       /\ \A j \in DOMAIN queues \cap DOMAIN queues' : queues'[j] = queues[j]
       /\ \A j, k \in DOMAIN queues' : j # k => queues'[j] # queues'[k]
      ]_vars

\* witness of C3: the create at stake happened while an interrupted subscriber was
\* still retained: ids 1 (interrupted, in the registry) and 2 (the new one)
C3_Witness ==
    /\ Len(streams) >= 2
    /\ streams[1].cid = 0 /\ streams[1].index = 1 /\ streams[1].pc = "done"
    /\ streams[2].cid = 0 /\ streams[2].index = 2
    /\ 1 \in DOMAIN queues /\ 1 \in DOMAIN interrupt_times /\ interrupt_times[1] # None

\* the retain timeout of queue index has elapsed (stated on the state, apart from
\* the code's test)
RetainElapsed(index) ==
    /\ index \in DOMAIN queues
    /\ index \in DOMAIN interrupt_times
    /\ interrupt_times[index] # None
    /\ now - interrupt_times[index][1] >= EVENT_RETAIN_TIMEOUT

\* C4 as claimed: an id whose retain timeout has elapsed counts as unused: a
\* listen with client_id = 0 never allocates an id above it
C4_ExpiredIdIsUnused ==
    [][NewSubscriber =>
          \A index \in DOMAIN queues :
              RetainElapsed(index) => streams'[Len(streams')].index <= index
      ]_vars

\* a step that ran __internal_send (a send, or the keep-alive thread's send)
InternalSendStep == Len(sends') = Len(sends) + 1 \/ (ka_pc = "send" /\ ka_pc' = "sleep")

\* C4 amended: the id is free once a send or a keep-alive has run after the
\* retain timeout elapsed: such a step leaves no queue in the registry whose
\* timeout has elapsed, and a listen with client_id = 0 never allocates an id
\* above one that is not in the registry
C4_ExpiredIdReusedAfterSend ==
    [][/\ InternalSendStep =>
            /\ \A index \in DOMAIN queues' : ~RetainElapsed(index)
            /\ \A index \in DOMAIN queues \ DOMAIN queues' : RetainElapsed(index)
            /\ \A index \in DOMAIN queues \ DOMAIN queues' : index \notin DOMAIN interrupt_times'
       /\ NewSubscriber =>
            \A index \in 1..MaxCalls :
                index \notin DOMAIN queues => streams'[Len(streams')].index <= index
      ]_vars

\* witness of C4: a second subscriber was given id 1 after the first one's queue
\* was dropped
C4_Witness ==
    \E s, t \in DOMAIN streams :
        /\ s < t
        /\ streams[s].cid = 0 /\ streams[s].index = 1 /\ streams[s].pc = "done"
        /\ streams[t].cid = 0 /\ streams[t].index = 1
        /\ streams[t].q # streams[s].q

\* C5: an interrupt fails with ERROR_ITEM_UNKNOWN when (and only when) no queue has
\* the id, and with ERROR_STATE_UNEXPECTED whenever an interrupt of that queue
\* already returned OK and no listen resumed it since
C5_SecondInterruptRefused ==
    \A i \in DOMAIN interrupts :
        interrupts[i].pc = "done" =>
            /\ interrupts[i].rc = "ERROR_ITEM_UNKNOWN" <=> interrupts[i].q = 0
            /\ interrupts[i].again => interrupts[i].rc = "ERROR_STATE_UNEXPECTED"

\* stream s reads queue object o
Reads(s, o) == streams[s].pc = "loop" /\ streams[s].q = o

\* C6: a send (or keep-alive) removes the queues whose retain timeout has elapsed
\* and gives the event to every other queue; no queue is removed otherwise, and
\* none is removed while a listener reads it
C6_OnlyExpiredRemoved ==
    [][\A index \in DOMAIN queues :
          /\ index \notin DOMAIN queues' =>
                /\ InternalSendStep
                /\ RetainElapsed(index)
                /\ \A s \in DOMAIN streams : ~Reads(s, queues[index])
          /\ InternalSendStep =>
                IF RetainElapsed(index)
                THEN index \notin DOMAIN queues'
                ELSE /\ index \in DOMAIN queues'
                     /\ Len(qobj'[queues[index]]) = Len(qobj[queues[index]]) + 1
      ]_vars

\* stream s is blocked for ever: it waits on an empty queue that no call in
\* flight will write (after the shutdown hook nothing else writes)
Blocked(s) ==
    /\ streams[s].pc = "loop"
    /\ qobj[streams[s].q] = <<>>
    /\ \A i \in DOMAIN interrupts :
          interrupts[i].pc \in {"check", "put"} => interrupts[i].q # streams[s].q

\* C7: once the shutdown hook has run, no stream that was open stays blocked on
\* its queue, and each of them that has ended yielded the shutdown status last
C7_ShutdownEndsStreams ==
    shutdown_pc = "done" =>
        \A s \in DOMAIN streams :
            streams[s].open =>
                /\ ~Blocked(s)
                /\ streams[s].pc = "done" =>
                      /\ streams[s].rc = "ERROR_STREAM_SHUTDOWN"
                      /\ streams[s].out[Len(streams[s].out)] = ShutdownStatus

\* the step takes a keep-alive event off queue object o
TakesKeepAlive(o) ==
    /\ qobj[o] # <<>>
    /\ Head(qobj[o]) = KeepAliveEvent
    /\ qobj'[o] = Tail(qobj[o])

\* C8 as claimed: the stream that takes a keep-alive event off its queue yields
\* it when its names filter is empty and drops it otherwise
C8_KeepAliveSuppressed ==
    [][\A o \in DOMAIN qobj :
          TakesKeepAlive(o) =>
              \E s \in DOMAIN streams :
                  /\ Reads(s, o)
                  /\ IF streams[s].names = {}
                     THEN streams'[s].out = Append(streams[s].out, KeepAliveEvent)
                     ELSE streams'[s] = streams[s] /\ \A t \in DOMAIN streams : streams'[t] = streams[t]
      ]_vars

\* C8 amended: the stream that takes a keep-alive event off its queue yields it,
\* whatever its names filter
C8_KeepAliveAlwaysYielded ==
    [][\A o \in DOMAIN qobj :
          TakesKeepAlive(o) =>
              \E s \in DOMAIN streams :
                  /\ Reads(s, o)
                  /\ streams'[s].out = Append(streams[s].out, KeepAliveEvent)
      ]_vars

\* witness of C8: a stream with a names filter yielded a keep-alive event
C8_Witness ==
    \E s \in DOMAIN streams :
        /\ streams[s].names # {}
        /\ \E k \in 1..Len(streams[s].out) : streams[s].out[k] = KeepAliveEvent

\* what the scenario's subscriber received: the named events of its first stream,
\* then those of the stream that resumed it
Received ==
    IF Len(streams) = 0 THEN <<>>
    ELSE IF Len(streams) = 1 THEN SeqsOf(streams[1].out)
    ELSE SeqsOf(streams[1].out) \o SeqsOf(streams[2].out)

\* C2: in the interrupt/resume scenario the subscriber receives e1, e2, e3, each
\* once and in that order: never anything else, all three once the last
\* interrupt has ended its stream, and both streams carry its client_id and end
\* without error
C2_ResumeDelivers ==
    /\ IsPrefix(Received, <<1, 2, 3>>)
    /\ step = LastStep /\ streams[2].pc = "done" =>
          /\ Received = <<1, 2, 3>>
          /\ \A s \in {1, 2} : streams[s].rc = "OK" /\ streams[s].index = streams[1].index
          /\ \A i \in DOMAIN interrupts : interrupts[i].pc = "done" => interrupts[i].rc = "OK"

\* witness of C2: the scenario ran to its end, and the event sent while
\* interrupted was delivered by the resumed stream
C2_Witness ==
    /\ step = LastStep
    /\ Len(streams) = 2 /\ streams[2].pc = "done"
    /\ SeqsOf(streams[1].out) = <<1>>
    /\ SeqsOf(streams[2].out) = <<2, 3>>
    /\ now > 0

\* call c wrote user item name: a set or reset naming it that returned OK
Writes(c, name) ==
    /\ name \in UserItems
    /\ calls[c].pc = "done" /\ calls[c].rc = "OK"
    /\ \/ calls[c].op = "set" /\ name \in DOMAIN calls[c].items
       \/ calls[c].op = "reset" /\ name \in calls[c].names

\* the last call that wrote name, 0 when none did
LastWrite(name) ==
    LET ks == {k \in DOMAIN log : Writes(log[k], name)}
    IN  IF ks = {} THEN 0 ELSE log[CHOOSE k \in ks : \A j \in ks : j <= k]

\* the step on which call c, of operation op, returns OK
Returns(c, op) ==
    /\ calls[c].op = op /\ calls[c].pc # "done"
    /\ calls'[c].pc = "done" /\ calls'[c].rc = "OK"

\* C9: get, set and reset exclude each other: at most one handler is inside the
\* lock, and a get returns, for every user item it was asked, the value of the
\* last set that succeeded on it when no other set or reset of it succeeded since
C9_SerializedReadYourWrites ==
    [][/\ Cardinality(Inside) <= 1 /\ Cardinality(Inside') <= 1
       /\ \A c \in DOMAIN calls :
             Returns(c, "get") =>
                 /\ DOMAIN calls'[c].ret = FilterItems(calls[c].names)
                 /\ \A name \in DOMAIN calls'[c].ret :
                       LET w == LastWrite(name)
                       IN  (w # 0 /\ calls[w].op = "set") =>
                               calls'[c].ret[name] = calls[w].items[name]
      ]_vars

\* witness of C9: a get returned the value of a set while a call made before it
\* was still waiting for the lock
C9_Witness ==
    \E c, d \in DOMAIN calls :
        /\ d < c /\ calls[d].pc = "wait"
        /\ calls[c].op = "get" /\ calls[c].pc = "done" /\ calls[c].rc = "OK"
        /\ LastWrite("my-int-config") # 0
        /\ calls[LastWrite("my-int-config")].op = "set"
        /\ calls[c].ret["my-int-config"] = "999"

\* the default of an item by the precedence of the layers: the CLI map, else the
\* environment, else user/config.json, else system/config.json, else the
\* declaration
EffectiveDefault(name) ==
    IF name \in DOMAIN cli_config THEN cli_config[name]
    ELSE IF EnvName[name] \in DOMAIN environ THEN environ[EnvName[name]]
    ELSE IF name \in DOMAIN user_config THEN user_config[name]
    ELSE IF name \in DOMAIN system_config THEN system_config[name]
    ELSE hard_coded_default_value[name]

\* C10: a reset that names user item n leaves n at its effective default and
\* returns it, whatever n was set to before; a get that follows (no set of n
\* succeeded since) returns that default
C10_ResetRestoresDefault ==
    [][\A c \in DOMAIN calls :
          /\ Returns(c, "reset") =>
                \A name \in calls[c].names \cap UserItems :
                    /\ value'[name] = EffectiveDefault(name)
                    /\ calls'[c].ret[name] = EffectiveDefault(name)
          /\ Returns(c, "get") =>
                \A name \in DOMAIN calls'[c].ret :
                    LET w == LastWrite(name)
                    IN  (w # 0 /\ calls[w].op = "reset") =>
                            calls'[c].ret[name] = EffectiveDefault(name)
      ]_vars

\* witness of C10: an item whose default comes from a layer was set to another
\* value, then reset, then read: the three calls returned in that order and the
\* get returned the default
C10_Witness ==
    /\ Len(log) = 3
    /\ \A k \in 1..3 : calls[log[k]].rc = "OK"
    /\ calls[log[1]].op = "set" /\ "my-int-config" \in DOMAIN calls[log[1]].items
    /\ calls[log[1]].items["my-int-config"] # EffectiveDefault("my-int-config")
    /\ calls[log[2]].op = "reset" /\ "my-int-config" \in calls[log[2]].names
    /\ calls[log[3]].op = "get"
    /\ EffectiveDefault("my-int-config") # hard_coded_default_value["my-int-config"]
    /\ calls[log[3]].ret["my-int-config"] = EffectiveDefault("my-int-config")

\* what workspace/config.json should hold: the user items whose value is not
\* their effective default, with those values
NonDefaultUserItems ==
    [name \in {n \in UserItems : value[n] # EffectiveDefault(n)} |-> value[name]]

\* C11: when a set or a reset returns OK, workspace/config.json holds exactly the
\* user items whose value differs from their effective default, with those
\* values
C11_FileHoldsNonDefaults ==
    [][\A c \in DOMAIN calls :
          (Returns(c, "set") \/ Returns(c, "reset")) => config_json' = NonDefaultUserItems'
      ]_vars

\* C12: a fresh server started on the workspace the previous one left answers get
\* with the same value for every user item as the previous server did
C12_RestartKeepsValues ==
    [][Restart => \A name \in UserItems : value'[name] = value[name]]_vars

\* the layers from the lowest to the highest, the environment read under the
\* item's variable name
LayersOf(name) ==
    << [n \in {name} |-> hard_coded_default_value[name]],
       [n \in {name} \cap DOMAIN system_config |-> system_config[name]],
       [n \in {name} \cap DOMAIN user_config |-> user_config[name]],
       [n \in {m \in {name} : EnvName[m] \in DOMAIN environ} |-> environ[EnvName[name]]],
       [n \in {name} \cap DOMAIN cli_config |-> cli_config[name]] >>

\* C13: the default of every item is the value of the highest layer that defines
\* it, in the order declaration < system < user < environment < CLI
C13_HighestLayerWins ==
    \A name \in Items :
        \E k \in 1..5 :
            /\ name \in DOMAIN LayersOf(name)[k]
            /\ \A j \in (k + 1)..5 : name \notin DOMAIN LayersOf(name)[j]
            /\ default_value[name] = LayersOf(name)[k][name]

\* witness of C13: the four layers above the declaration all define the item and
\* the CLI value is its default, while the environment alone gives the static
\* item its default
C13_Witness ==
    /\ \A k \in 2..5 : "my-int-config" \in DOMAIN LayersOf("my-int-config")[k]
    /\ default_value["my-int-config"] = "5"
    /\ default_value["rpc-max-workers"] = "8"

\* the step on which call c leaves its handler, with or without an error
Ends(c) == calls[c].pc # "done" /\ calls'[c].pc = "done"

\* C14: no config call changes a static item: every step of get, set or reset
\* leaves the value and the default of the static items as they were, a set or
\* reset that names a static item without ignore_unknown ends with
\* ERROR_ITEM_UNKNOWN, and a file written by a call holds user items only
C14_StaticItemsReadOnly ==
    [][\/ Restart
       \/ /\ \A name \in StaticItems :
                value'[name] = value[name] /\ default_value'[name] = default_value[name]
          /\ config_json' # config_json => DOMAIN config_json' \subseteq UserItems
          /\ \A c \in DOMAIN calls :
                (/\ Ends(c)
                 /\ calls[c].op \in {"set", "reset"}
                 /\ calls[c].names \cap StaticItems # {}
                 /\ ~calls[c].ignore_unknown) => calls'[c].rc = "ERROR_ITEM_UNKNOWN"
      ]_vars

\* witness of C14: a set naming the static item with ignore_unknown returned OK
\* and wrote the user item it also named, a reset naming the static item alone
\* was refused, the file was written, and the static item still has the value
\* the server started with
C14_Witness ==
    /\ \E c \in DOMAIN calls :
          /\ calls[c].op = "set" /\ calls[c].pc = "done" /\ calls[c].rc = "OK"
          /\ "rpc-max-workers" \in calls[c].names
    /\ \E c \in DOMAIN calls :
          /\ calls[c].op = "reset" /\ calls[c].pc = "done"
          /\ calls[c].rc = "ERROR_ITEM_UNKNOWN"
    /\ value["my-int-config"] = "3"
    /\ config_json = ("my-int-config" :> "3")
    /\ value["rpc-max-workers"] = "8"

\* C15 as claimed: with RPC_MAX_WORKERS=8 resolved as the value of
\* rpc-max-workers, a get that names rpc-max-workers succeeds and returns "8"
C15_StaticItemServed ==
    [][\A c \in DOMAIN calls :
          (/\ Ends(c)
           /\ calls[c].op = "get"
           /\ calls[c].names = {"rpc-max-workers"}
           /\ value["rpc-max-workers"] = "8") =>
              /\ calls'[c].rc = "OK"
              /\ calls'[c].ret["rpc-max-workers"] = "8"
      ]_vars

\* C15 amended: get serves user items only: a get that names a static item ends
\* with ERROR_ITEM_UNKNOWN, or with ignore_unknown returns the user items it
\* names and not the static one; the environment value is the item's default
C15_StaticItemNotServed ==
    [][/\ "RPC_MAX_WORKERS" \in DOMAIN environ =>
             default_value["rpc-max-workers"] = environ["RPC_MAX_WORKERS"]
       /\ \A c \in DOMAIN calls :
             (Ends(c) /\ calls[c].op = "get") =>
                 /\ (calls[c].names \cap StaticItems # {} /\ ~calls[c].ignore_unknown)
                        => calls'[c].rc = "ERROR_ITEM_UNKNOWN"
                 /\ calls'[c].rc = "OK" =>
                        /\ DOMAIN calls'[c].ret \subseteq UserItems
                        /\ \A name \in UserItems :
                              (calls[c].names = {} \/ name \in calls[c].names)
                                  => name \in DOMAIN calls'[c].ret
      ]_vars

\* witness of C15: RPC_MAX_WORKERS=8 is the value of rpc-max-workers, a get of it
\* was refused and a get of it with ignore_unknown returned the user item alone
C15_Witness ==
    /\ "RPC_MAX_WORKERS" \in DOMAIN environ
    /\ value["rpc-max-workers"] = "8"
    /\ \E c \in DOMAIN calls :
          /\ calls[c].op = "get" /\ calls[c].names = {"rpc-max-workers"}
          /\ calls[c].pc = "done" /\ calls[c].rc = "ERROR_ITEM_UNKNOWN"
    /\ \E c \in DOMAIN calls :
          /\ calls[c].op = "get" /\ "rpc-max-workers" \in calls[c].names
          /\ calls[c].pc = "done" /\ calls[c].rc = "OK"
          /\ DOMAIN calls[c].ret = {"my-int-config"}

\* the values a constructor leaves when the persisted file is applied to the
\* items of the set given: the persisted value where it passes the validator,
\* the resolved default elsewhere
LoadedOver(items) ==
    \A name \in Items :
        value[name] = IF name \in items \cap DOMAIN config_json
                         /\ Validate(name, config_json[name]) = "OK"
                      THEN config_json[name] ELSE EffectiveDefault(name)

\* C16 as claimed: a server, when constructed, applies workspace/config.json to
\* user items only: a static item named in the file keeps its resolved default
C16_PersistedForUserItemsOnly ==
    LoadedOver(UserItems) /\ [][Restart => LoadedOver(UserItems)']_vars

\* C16 amended: a server, when constructed, applies workspace/config.json to
\* every item it names, static or user; a persisted value that fails the item's
\* validator is ignored and the item takes its resolved default
C16_PersistedForEveryItem ==
    LoadedOver(Items) /\ [][Restart => LoadedOver(Items)']_vars

\* witness of C16: the file names the static item and holds an invalid value for
\* the user item: the static item has the persisted value and not its default,
\* the user item has its default
C16_Witness ==
    /\ config_json = ("my-int-config" :> "invalid string") @@ ("rpc-max-workers" :> "5")
    /\ value["rpc-max-workers"] = "5"
    /\ EffectiveDefault("rpc-max-workers") = "8"
    /\ value["my-int-config"] = EffectiveDefault("my-int-config")

\* the dumps a get on the proxy saw hold distinct values for one item, between
\* the local server and a peer or between two peers
SeesDistinctValues(get) ==
    \E j \in DOMAIN get.dumps, k \in DOMAIN get.dumps :
        \E name \in DOMAIN get.dumps[j] \cap DOMAIN get.dumps[k] :
            get.dumps[j][name] # get.dumps[k][name]

\* C17: a get on the proxy that sees distinct values for one item fails with
\* ERROR_ITEM_CONFLICT when ignore_unknown is not set, and no get fails with
\* ERROR_ITEM_CONFLICT when ignore_unknown is set
C17_ConflictUnlessIgnoreUnknown ==
    proxy_get.rc # "none" =>
        /\ SeesDistinctValues(proxy_get) /\ ~proxy_get.ignore_unknown
               => proxy_get.rc = "ERROR_ITEM_CONFLICT"
        /\ proxy_get.ignore_unknown => proxy_get.rc # "ERROR_ITEM_CONFLICT"

\* handle_exception decides: the step that leaves the "except" block
Handled == client.pc = "except" /\ client'.pc # "except"

\* the outcome of handle_exception: a retry is a sleep of 500 ms that leads back
\* to the call; anything else raises ERROR_RPC with no retry
RetryRule ==
    /\ Handled =>
           IF /\ client.error = "UNAVAILABLE"
              /\ client.timeout \notin {None, <<0>>}
              /\ client_time - client.first_try < client.timeout[1]
           THEN client'.pc = "sleep" /\ client'.rc = NoCode
           ELSE client'.pc = "done" /\ client'.rc = ERROR_RPC
                    /\ client'.retries = client.retries
    /\ client.pc = "sleep" /\ client'.pc # "sleep" =>
           /\ client'.pc = "call" /\ client'.retries = client.retries + 1
           /\ client_time' = client_time + 1
    /\ client'.retries # client.retries => client.pc = "sleep"
    /\ client'.timeout \in {None, <<0>>} => client'.retries = 0

\* C18: an UNAVAILABLE error is retried after a sleep of 500 ms while the time
\* since the first try is below the timeout, and raises ERROR_RPC once it is
\* not; any other error raises ERROR_RPC with no retry; with timeout None or 0
\* there is no retry; and every call made ends
C18_RetryUntilTimeout ==
    /\ [][RetryRule]_vars
    /\ (client.pc = "call") ~> (client.pc = "done")

\* a call that was retried and then failed on the expired timeout
C18_Witness ==
    /\ client.pc = "done" /\ client.rc = ERROR_RPC
    /\ client.retries > 0 /\ client.error = "UNAVAILABLE"
    /\ client_time - client.first_try >= client.timeout[1]

\* C19: once a response is received, the call fails with the response's code
\* exactly when the exception flag is set and OK < code < ERROR_CUSTOM; every
\* other response is returned to the caller as it is
C19_RaisedIffFrameworkError ==
    client.method = "simple" /\ client.pc = "done" /\ client.response # NoCode =>
        IF client.exception /\ OK < client.response /\ client.response < ERROR_CUSTOM
        THEN client.rc = client.response /\ client.result = NoCode
        ELSE client.result = client.response /\ client.rc = NoCode

\* the call of test_exceptions: method2 answers code 12 and the client raises it
C19_Witness ==
    /\ client.method = "simple" /\ client.pc = "done" /\ client.exception
    /\ client.response = SAMPLE_ERROR /\ client.rc = SAMPLE_ERROR

\* k elements of the manager's producer
Elements(k) == [i \in 1..k |-> OK]

\* C20: when the manager's streaming method raises code c after k elements, the
\* server stream is the k elements, one element of code c, and the end; the
\* client wrapper yields the k elements and then fails with code c
C20_StreamErrorRaised ==
    /\ client.method = "stream" /\ client.pc = "done" /\ client.exception
    /\ client.error = "none" /\ server.c # OK
    => /\ server.out = Append(Elements(server.k), server.c) /\ server.ended
       /\ client.yielded = Elements(server.k)
       /\ client.rc = server.c

\* the positions in srv_log of the calls that name service n
Naming(n) ==
    {i \in DOMAIN srv_log :
        \E j \in DOMAIN srv_calls[srv_log[i]].names : srv_calls[srv_log[i]].names[j] = n}

\* the last call of srv_log that names service n
LastNaming(n) == srv_calls[srv_log[Max(Naming(n))]]

\* a fresh server takes over
Restarts == hooks # <<>> /\ hooks' = <<>>

\* C23: once the proxy_register and proxy_forget calls made so far are over, the
\* host, port and version of a service are the arguments of the last
\* proxy_register that named it, unless a proxy_forget named it later: then the
\* host is "" and the port 0; and proxy_forget never changes a version
C23_LastRegisterWins ==
    /\ [](srv_lock = 0 =>
            \A n \in DOMAIN info : Naming(n) # {} =>
                IF LastNaming(n).op = "proxy_register"
                THEN /\ info[n].proxy_host = LastNaming(n).host
                     /\ info[n].proxy_port = LastNaming(n).port
                     /\ info[n].version = LastNaming(n).version
                ELSE info[n].proxy_host = "" /\ info[n].proxy_port = 0)
    /\ [][\A n \in DOMAIN info : info'[n].version # info[n].version =>
              \/ Restarts
              \/ /\ srv_lock # 0 /\ srv_calls[srv_lock].op = "proxy_register"
                 /\ info'[n].version = srv_calls[srv_lock].version]_vars

\* the end of test_proxy_register_n_forget: registered with version "123", then
\* forgotten
C23_Witness ==
    /\ srv_lock = 0 /\ Naming("sample") # {}
    /\ LastNaming("sample").op = "proxy_forget"
    /\ \E i \in Naming("sample") : srv_calls[srv_log[i]].op = "proxy_register"
    /\ info["sample"].version = "123" /\ info["sample"].proxy_port = 0

\* the ServiceInfo rec of service n once call is applied in full
Applied(call, rec, n) ==
    IF \A j \in DOMAIN call.names : call.names[j] # n THEN rec
    ELSE IF call.op = "proxy_register"
         THEN [rec EXCEPT !.version = call.version, !.proxy_port = call.port,
                          !.proxy_host = call.host]
         ELSE [rec EXCEPT !.proxy_port = 0, !.proxy_host = ""]

\* C24: what srv.info reads while a proxy_register or proxy_forget holds the
\* lock is, for every service, its ServiceInfo from before that call or the one
\* from after it
C24_NoPartialRead ==
    [][\A c \in DOMAIN srv_calls :
          /\ srv_calls[c].op = "info" /\ srv_calls[c].pc = "start"
          /\ c \in DOMAIN srv_calls' /\ srv_calls'[c].pc = "done"
          /\ srv_lock # 0
          => \A n \in DOMAIN srv_calls'[c].seen :
                 \/ srv_calls'[c].seen[n] = srv_calls[srv_lock].before[n]
                 \/ srv_calls'[c].seen[n] =
                        Applied(srv_calls[srv_lock], srv_calls[srv_lock].before[n], n)]_vars

\* the descriptors of the services named by a call
Named(call) ==
    {d \in {descriptors[i] : i \in DOMAIN descriptors} :
        \E j \in DOMAIN call.names : call.names[j] = d.name}

\* the answer the claim gives to a proxy_register or proxy_forget request
Verdict(call) ==
    IF call.names = <<>> \/ (\E j \in DOMAIN call.names : call.names[j] = "")
    THEN "ERROR_PARAM_MISSING"
    ELSE IF \E j \in DOMAIN call.names : call.names[j] \notin NamesOf(descriptors)
    THEN "ERROR_ITEM_UNKNOWN"
    ELSE IF \E d \in Named(call) : ~d.is_proxy
    THEN "ERROR_PARAM_INVALID"
    ELSE IF call.op = "proxy_register" /\ (call.version = "" \/ call.port = 0)
    THEN "ERROR_PARAM_MISSING"
    ELSE "OK"

\* the proxy_register and proxy_forget calls
ProxyCalls == {c \in DOMAIN srv_calls : srv_calls[c].op \in {"proxy_register", "proxy_forget"}}

\* C25: proxy_register and proxy_forget answer a bad request with the code of
\* the first failed check, in the order missing name, unknown service, service
\* that is no proxy, missing version or port; a rejected request never takes
\* the lock, and only a call holding the lock changes a ServiceInfo or proxy.json
C25_RejectedInOrder ==
    /\ [](\A c \in ProxyCalls :
            /\ srv_calls[c].pc # "start" => srv_calls[c].rc = Verdict(srv_calls[c])
            /\ Verdict(srv_calls[c]) # "OK" =>
                   /\ srv_calls[c].pc \in {"start", "done"}
                   /\ srv_lock # c /\ \A i \in DOMAIN srv_log : srv_log[i] # c)
    /\ [][info' # info \/ proxy_json' # proxy_json =>
              \/ Restarts
              \/ srv_lock \in ProxyCalls /\ Verdict(srv_calls[srv_lock]) = "OK"]_vars

\* a request naming a service that is no proxy and an unknown one, with no version
\* and no port, was answered
C25_Witness ==
    \E c \in ProxyCalls :
        /\ srv_calls[c].pc = "done" /\ srv_calls[c].names = <<"srv", "foo">>
        /\ srv_calls[c].rc = "ERROR_ITEM_UNKNOWN"

\* proxy.json has an entry for service n that holds its host, port and version
Saved(n) ==
    /\ n \in DOMAIN proxy_json
    /\ proxy_json[n].host = info[n].proxy_host
    /\ proxy_json[n].port = info[n].proxy_port
    /\ proxy_json[n].version = info[n].version

\* C28: once a proxy_register or proxy_forget has succeeded and none is under
\* way, proxy.json lists exactly the proxy services whose port is set, with
\* their host, port and version; a fresh server on the same workspace holds, for
\* every service of the file, the host, port and version of the file
C28_ProxyFileRoundTrip ==
    /\ [](srv_lock = 0 /\ srv_log # <<>> =>
            \A n \in DOMAIN info :
                IF info[n].is_proxy /\ info[n].proxy_port > 0
                THEN Saved(n) ELSE n \notin DOMAIN proxy_json)
    /\ [][Restarts =>
              \A n \in DOMAIN proxy_json \cap DOMAIN info :
                  /\ info'[n].proxy_host = proxy_json[n].host
                  /\ info'[n].proxy_port = proxy_json[n].port
                  /\ info'[n].version = proxy_json[n].version]_vars

\* a fresh server runs with the registration a former one saved
C28_Witness ==
    /\ hooks = <<>> /\ srv_calls = <<>>
    /\ info["sample"].is_proxy /\ info["sample"].proxy_port = 2
    /\ info["sample"].version = "456" /\ Saved("sample")

\* C29: every service has supported_api_version <= current_api_version, and
\* every service that is no proxy has proxy_host "" and proxy_port 0, from the
\* start of the server on
C29_InfoInvariants ==
    \A n \in DOMAIN info :
        /\ info[n].supported_api_version <= info[n].current_api_version
        /\ ~info[n].is_proxy => info[n].proxy_host = "" /\ info[n].proxy_port = 0

\* the services that are no proxy, in their order of registration
RealNames ==
    [i \in 1..Len(SelectSeq(descriptors, LAMBDA d : ~d.is_proxy)) |->
        SelectSeq(descriptors, LAMBDA d : ~d.is_proxy)[i].name]

\* C30: on shutdown the _shutdown hooks of the managers that are no proxy are
\* called in the reverse of their order of registration, srv last
C30_HooksInReverseOrder ==
    hooks # <<>> =>
        /\ Len(hooks) = Len(RealNames)
        /\ \A i \in DOMAIN hooks : hooks[i] = RealNames[Len(RealNames) + 1 - i]
        /\ hooks[Len(hooks)] = "srv"

\* the calls dispatched to a method of a user service
MethodCalls == {c \in DOMAIN srv_calls : srv_calls[c].op = "call"}

\* the call went past the verification of its version: the manager's method was
\* called, or the wait for the proxy and the forwarding began
Invoked(call) == call.target # None \/ call.pc \in {"poll", "sleep", "forward"}

\* the code of the response of a call that is over
Code(call) == call.response[1].code

\* C21: a call that carries api_version v reaches the manager's method or the
\* proxy forwarding only if supported_api_version <= v <= current_api_version;
\* v above the current version is answered ERROR_API_SERVER_TOO_OLD and v below
\* the supported one ERROR_API_CLIENT_TOO_OLD; a call without api_version is
\* never answered one of these two codes
C21_VersionChecked ==
    \A c \in MethodCalls :
        LET call == srv_calls[c]
            i == info[call.service]
        IN  IF call.api_version = None
            THEN call.pc = "done" =>
                     Code(call) \notin {ERROR_API_SERVER_TOO_OLD, ERROR_API_CLIENT_TOO_OLD}
            ELSE LET v == call.api_version[1]
                 IN  /\ Invoked(call) =>
                            i.supported_api_version <= v /\ v <= i.current_api_version
                     /\ call.pc = "done" /\ v > i.current_api_version =>
                            Code(call) = ERROR_API_SERVER_TOO_OLD
                     /\ call.pc = "done" /\ v < i.supported_api_version =>
                            Code(call) = ERROR_API_CLIENT_TOO_OLD

\* three calls are over: one too new for the server, one too old, one without
\* api_version that was served
C21_Witness ==
    /\ \E c \in MethodCalls :
           srv_calls[c].pc = "done" /\ Code(srv_calls[c]) = ERROR_API_SERVER_TOO_OLD
    /\ \E c \in MethodCalls :
           srv_calls[c].pc = "done" /\ Code(srv_calls[c]) = ERROR_API_CLIENT_TOO_OLD
    /\ \E c \in MethodCalls :
           /\ srv_calls[c].pc = "done" /\ srv_calls[c].api_version = None
           /\ srv_calls[c].target # None

\* C22: a call that ends on an exception, raised by the manager's method, by
\* the verification of the version, by the wait for the proxy or by the
\* forwarding, is answered with a response of the declared type of its method;
\* the code of its Result is the rc of the exception when it is an RpcException
\* and ERROR otherwise
C22_ExceptionsReported ==
    \A c \in MethodCalls :
        LET call == srv_calls[c]
        IN  call.pc = "done" =>
                /\ call.response # None
                /\ call.response[1].type = call.return_type
                /\ call.target = <<"manager">> /\ call.raises = "RpcException" =>
                       Code(call) = call.code
                /\ call.target = <<"manager">> /\ call.raises = "Exception" =>
                       Code(call) = ERROR
                /\ call.target = None =>
                       Code(call) \in {ERROR_API_SERVER_TOO_OLD, ERROR_API_CLIENT_TOO_OLD,
                                       ERROR_PROXY_UNREGISTERED}

\* the calls the server has forwarded to the peer that serves the service
Forwarded == {c \in MethodCalls : srv_calls[c].pc = "done" /\ srv_calls[c].target = PeerAddress}

Waited(call) ==
    /\ info[call.service].is_proxy
    /\ VerifyApiVersion(call.api_version, info[call.service]) = OK
    /\ call.before[call.service].proxy_port = 0

\* a proxy_register of the service of the call completed after the call arrived
\* and before rpc-client-timeout had elapsed
RegisteredInTime(call) ==
    \E r \in DOMAIN srv_calls :
        /\ srv_calls[r].op = "proxy_register" /\ srv_calls[r].pc = "done"
        /\ srv_calls[r].rc = "OK"
        /\ \E k \in DOMAIN srv_calls[r].names : srv_calls[r].names[k] = call.service
        /\ call.first_try <= srv_calls[r].ended
        /\ srv_calls[r].ended < call.first_try + CLIENT_TIMEOUT

\* C26: a call to a proxy service whose proxy_port is 0 is forwarded and
\* answered with the peer's response when a proxy_register of the service
\* completes before rpc-client-timeout has elapsed since the call arrived, and
\* is answered ERROR_PROXY_UNREGISTERED otherwise; no call is forwarded to port 0
C26_WaitsForRegistration ==
    \A c \in MethodCalls :
        LET call == srv_calls[c]
        IN  /\ call.target \notin {None, <<"manager">>} => call.target[2] # 0
            /\ call.pc = "done" /\ Waited(call) =>
                   IF RegisteredInTime(call)
                   THEN call.response = <<ManagerResponse(call)>>
                   ELSE Code(call) = ERROR_PROXY_UNREGISTERED

\* C36: the _shutdown hook of the events manager always returns: it never holds
\* the manager's lock, waiting to join the keep-alive thread, while that thread
\* waits for the same lock to send its keep-alive event
C36_ShutdownJoins ==
    ~(shutdown_pc = "join" /\ lock = "shutdown" /\ ka_pc = "send")

\* the listen call s is over and no later listen call was given its queue
LastReader(s) ==
    /\ streams[s].pc \in {"done", "closed"}
    /\ streams[s].index \in DOMAIN queues
    /\ queues[streams[s].index] = streams[s].q
    /\ \A t \in DOMAIN streams : t > s => streams[t].q # streams[s].q

\* C39: when a listen stream has ended, by interrupt, by shutdown or because the
\* subscriber's transport closed, and its subscriber has not resumed, the
\* interrupt time of its queue is recorded, so that the queue is dropped once
\* the retain timeout has elapsed
C39_EndedStreamInterrupted ==
    \A s \in DOMAIN streams :
        LastReader(s) =>
            /\ streams[s].index \in DOMAIN interrupt_times
            /\ interrupt_times[streams[s].index] # None

\* C35: queues.json lists the ids of the queues of the registry after every
\* creation and every drop; a restarted service has one empty queue per id of
\* queues.json, interrupted at the time of its start; a queue leaves the registry
\* only once its retain timeout has elapsed, so that its subscriber can resume
\* until then, and an expired queue is gone after the next event sent
C35_QueuesPersisted ==
    /\ [](queues_json = DOMAIN queues)
    /\ [][/\ shutdown_pc = "done" /\ shutdown_pc' = "idle" =>
              /\ DOMAIN queues' = queues_json
              /\ \A index \in queues_json :
                     /\ qobj'[queues'[index]] = <<>>
                     /\ interrupt_times'[index] = <<now>>
          /\ shutdown_pc' = shutdown_pc =>
                 \A index \in DOMAIN queues :
                     /\ index \notin DOMAIN queues' => IsExpired(index)
                     /\ IsExpired(index)
                            /\ (sends' # sends \/ (ka_pc = "send" /\ ka_pc' = "sleep")) =>
                            index \notin DOMAIN queues']_vars

\* a subscriber has resumed, on the restarted service, the id a former service
\* gave it: its queue is none of those a listen with client_id 0 created
C35_Witness ==
    \E s \in DOMAIN streams :
        /\ streams[s].cid > 0 /\ streams[s].rc = "OK"
        /\ \A t \in DOMAIN streams : streams[t].cid = 0 => streams[t].q # streams[s].q

\* the set request of the call names an unknown item that is not to be
\* ignored, has an empty name, or gives a user item a value it refuses
Refused(call) ==
    \/ DOMAIN call.items = {}
    \/ "" \in DOMAIN call.items
    \/ ~call.ignore_unknown /\ DOMAIN call.items \ UserItems # {}
    \/ \E name \in DOMAIN call.items \cap UserItems : Validate(name, call.items[name]) # "OK"

\* C40: a set whose request has an item that is unknown (ignore_unknown false),
\* has an empty name, or has a value its item refuses, is answered the error,
\* and none of its steps changes a value or workspace/config.json: the valid
\* items of the same request are not updated
C40_SetAllOrNothing ==
    /\ [](\A c \in DOMAIN calls :
             calls[c].op = "set" /\ Refused(calls[c]) =>
                 /\ calls[c].pc \in {"wait", "done"}
                 /\ calls[c].pc = "done" => calls[c].rc # "OK")
    /\ [][\A c \in DOMAIN calls :
             calls[c].op = "set" /\ Refused(calls[c]) /\ calls'[c] # calls[c] =>
                 value' = value /\ config_json' = config_json]_vars

\* a refused set is over, whose request held a valid value for another item:
\* that item has not taken it
C40_Witness ==
    \E c \in DOMAIN calls :
        /\ calls[c].op = "set" /\ calls[c].pc = "done" /\ calls[c].rc = "ERROR_PARAM_INVALID"
        /\ "my-str-config" \in DOMAIN calls[c].items
        /\ calls[c].items["my-str-config"] = "bar"
        /\ value["my-str-config"] # "bar"

\* C38: a streaming call yields each element of the server's stream to its
\* caller at most once: the request is issued again, after UNAVAILABLE, only
\* when no element was yielded yet, so that the caller never gets more elements
\* than the manager's method produced
C38_ElementsYieldedOnce ==
    /\ [](client.method = "stream" => Len(client.yielded) <= server.k + 1)
    /\ [][client.method = "stream" /\ client.pc = "call" /\ client'.pc = "iterate" =>
              client.yielded = <<>>]_vars

\* the calls of RpcServer.calls
InFlight == {c \in DOMAIN srv_calls : srv_calls[c].logged}

\* the calls whose dispatch has started and has not ended
Dispatched == {c \in DOMAIN srv_calls :
                  /\ srv_calls[c].op \in {"call", "stream"}
                  /\ srv_calls[c].pc \notin {"start", "done", "closed"}}

\* C34: the calls in RpcServer.calls are exactly those being dispatched: a call
\* is added when its dispatch starts and removed when it ends, normally, on an
\* exception or because the consumer abandoned its stream; with no call
\* executing the list is empty
C34_InFlightExact == InFlight = Dispatched

\* the same, for the calls whose stream was not abandoned: it holds
C34_InFlightUnlessAbandoned ==
    \A c \in DOMAIN srv_calls :
        srv_calls[c].pc # "closed" => (c \in InFlight <=> c \in Dispatched)

\* the calls of shutdown whose finalization has begun
Finalizations == {s \in DOMAIN shutdowns : shutdowns[s].fin # "none"}

\* C37: however many shutdown requests arrive, by RPC or inline, one after
\* another or concurrently, the transport is stopped once, the _shutdown of each
\* manager runs at most once, the finalization runs once and every request that
\* returns answers OK
C37_ShutdownOnce ==
    /\ transport.stops <= 1
    /\ \A i, j \in DOMAIN hooks : hooks[i] = hooks[j] => i = j
    /\ Cardinality(Finalizations) <= 1
    /\ \A s \in DOMAIN shutdowns :
           shutdowns[s].pc \in {"done", "raised"} => shutdowns[s].response = <<OK>>

\* the calls of managers' methods that the transport is serving
Running == {c \in DOMAIN srv_calls : srv_calls[c].pc = "run"}

\* the calls in flight at a shutdown are drained: a call is aborted only when it
\* outlasts the grace that began at stop(), a call that ends before has its
\* response, and is_running becomes false in a state where no call is running
C31_CallsDrained ==
    /\ [](\A c \in DOMAIN srv_calls :
             /\ srv_calls[c].pc = "aborted" =>
                    /\ transport.stop_time # None
                    /\ srv_calls[c].ended >= transport.stop_time[1] + SHUTDOWN_GRACE
             /\ srv_calls[c].pc = "done" => srv_calls[c].response # None)
    /\ [][is_running /\ ~is_running' => Running = {}]_vars

\* a srv.shutdown has returned OK while a call in flight is still running and
\* the server is_running
C31_Witness ==
    /\ Running # {}
    /\ is_running
    /\ \E s \in DOMAIN shutdowns :
           /\ shutdowns[s].request # None
           /\ shutdowns[s].pc = "done" /\ shutdowns[s].response = <<OK>>

\* C31: a call in flight when shutdown is requested, by srv.shutdown or inline,
\* completes and its response reaches the caller provided it ends within
\* rpc-shutdown-grace; is_running becomes false only after every call in flight
\* has ended; the srv.shutdown RPC returns OK, without waiting for those calls
C31_GracefulShutdown ==
    /\ C31_CallsDrained
    /\ [](\A s \in DOMAIN shutdowns :
             shutdowns[s].request # None /\ shutdowns[s].pc = "done" =>
                 shutdowns[s].response = <<OK>>)

\* C32: is_running is true from the start until the finalization of a shutdown
\* and never true again; wait_shutdown() returns only once is_running is false,
\* which it is only when the transport has terminated; after the first shutdown
\* request the finalization is eventually reached, is_running is false and every
\* wait_shutdown() has returned
C32_RunningUntilFinalized ==
    /\ [](is_running <=> \A s \in DOMAIN shutdowns : shutdowns[s].fin # "done")
    /\ [][~is_running => ~is_running']_vars
    /\ [](~is_running => WaitForTermination)
    /\ [](\A w \in DOMAIN waits : waits[w] = "returned" => ~is_running)
    /\ (shutdowns # <<>>) ~> (~is_running /\ \A w \in DOMAIN waits : waits[w] = "returned")

\* the safety half of the same
C32_RunningSafety ==
    /\ [](is_running <=> \A s \in DOMAIN shutdowns : shutdowns[s].fin # "done")
    /\ [][~is_running => ~is_running']_vars
    /\ [](~is_running => WaitForTermination)
    /\ [](\A w \in DOMAIN waits : waits[w] = "returned" => ~is_running)

\* the listener has received the first status of the subscription it reads
Subscribed == listener.pc = "read" /\ listener.seen > 0

\* C33: the EventsListener keeps its client_id equal to the id of the
\* subscription it is reading; it keeps the id over a transport failure and over
\* ERROR_STREAM_SHUTDOWN, and after ERROR_ITEM_UNKNOWN it clears the id,
\* subscribes anew and stores the id newly allocated
C33_ListenerIdCurrent ==
    /\ [](Subscribed => listener.client_id = <<streams[listener.stream].index>>)
    /\ [][listener.pc = "read" /\ listener'.pc = "sleep" =>
              listener'.client_id = listener.client_id]_vars
    /\ [][listener.pc = "read" /\ listener'.pc = "call" =>
              listener'.client_id = None]_vars

\* the same without the first conjunct: what the handling of the errors does
C33_IdKeptOrCleared ==
    /\ [][listener.pc = "read" /\ listener'.pc = "sleep" =>
              listener'.client_id = listener.client_id]_vars
    /\ [][listener.pc = "read" /\ listener'.pc = "call" =>
              listener'.client_id = None]_vars

====
